---- MODULE Spec2Model ----
(***************************************************************************)
(* A model of programming-bitcoin-rs: the ECDSA engine over secp256k1      *)
(* (src/src/signature.rs), the wire codecs (src/src/serializer/*.rs) and   *)
(* the address encoders (src/src/address.rs).                              *)
(*                                                                         *)
(* Numbers.  TLC integers are 32 bits wide, so the 256-bit curve is        *)
(* replaced by the curve with the same equation y^2 = x^3 + 7 over the     *)
(* field of FieldP = 13 elements; its group has prime order OrderN = 7     *)
(* (cofactor 1, OrderN < FieldP, as for secp256k1).  A scalar or a         *)
(* coordinate is then one base-256 digit wide.  Bytes are 0..255 and       *)
(* fixed-width integers (u32, u64) are numerals: sequences of base-256     *)
(* digits, most significant digit first.  A U256 is its four u64 limbs;    *)
(* the DER serializers are checked on values of the full 256 bits.         *)
(***************************************************************************)
EXTENDS Integers, Sequences, FiniteSets, TLC

VARIABLES
    pc,      \* position of the ECDSA caller
    zd,      \* the digest z handed to sign / verify (as the integer its 32 bytes denote)
    key,     \* the private key handed to sign (as the integer its bytes denote)
    nonce,   \* the last nonce drawn from the random generator
    draws,   \* how many nonces sign has drawn (saturates at MaxDraws)
    sig,     \* the signature sign returned
    vin,     \* the arguments of the last verify call
    vres,    \* its outcome: "true", "false", "panic", or "none" before any call
    vkind,   \* which call it was: "own", "any", "r", "s", "key"
    vbase,   \* the accepted arguments a tampered call started from
    ckind,   \* the codec, constructor or encoder in use: "varint", "script", ...
    cstage,  \* "value" (a value to serialize), "bytes" (bytes to parse), "parsed",
             \* "built" (behind a constructor), "encoded" (behind an encoder)
    cedit,   \* how the bytes came about: "none" (serialized), "tail", "prefix", "raw"
    carg,    \* the value handed to serialize
    cbytes,  \* the bytes handed to parse
    cres     \* what parse, the constructor or the encoder returned

sigVars == <<pc, zd, key, nonce, draws, sig, vin, vres, vkind, vbase>>

codecVars == <<ckind, cstage, cedit, carg, cbytes, cres>>

vars == <<sigVars, codecVars>>

-----------------------------------------------------------------------------
(* Bounds of the model *)

\* digests range over 0..DigestMax (>= OrderN, so that the reduction mod n acts)
DigestMax == 7
\* private keys range over 0..KeyMax (>= OrderN)
KeyMax == 7
\* the draw counter saturates here
MaxDraws == 2
\* a script holds at most MaxCommands commands
MaxCommands == 2
\* at most TailMax bytes follow a serialized value
TailMax == 2
\* a byte string from the wire has at most RawMax free bytes
RawMax == 4
\* a serialization is cut at most CutNear bytes from its start or from its end
CutNear == 3
\* a public key is handed over in projective forms with z in 1..ProjectiveMax
ProjectiveMax == 2
\* the short inputs of base58_encode have at most Base58Max bytes
Base58Max == 3
\* a payload starts with at most PayloadZeros zero bytes before its first set bit
PayloadZeros == 2
\* the short sequences of 5-bit groups have at most GroupsMax groups
GroupsMax == 3

-----------------------------------------------------------------------------
(* secp256k1, scaled: src/src/secp256k1/fields.rs, src/src/secp256k1/curve.rs *)

\* BaseFieldModulus::MODULUS, scaled
FieldP == 13
\* ScalarFieldModulus::MODULUS, scaled
OrderN == 7

BaseFelts == 0 .. (FieldP - 1)
ScalarFelts == 0 .. (OrderN - 1)

\* IsShortWeierstrass::a and ::b of Secp256k1
CurveA == 0
CurveB == 7

\* FieldElement::inv(..).unwrap() of the base field, used on non-zero elements only
BaseInv(a) == CHOOSE b \in BaseFelts : (a * b) % FieldP = 1

\* FieldElement::inv of the scalar field: Err on zero ([ok |-> FALSE]), else Ok(inverse)
ScalarInv(a) ==
    IF a % OrderN = 0 THEN [ok |-> FALSE, v |-> 0]
    ELSE [ok |-> TRUE, v |-> CHOOSE b \in ScalarFelts : (a * b) % OrderN = 1]

\* a point in projective coordinates [x : y : z]; the neutral element is [0 : 1 : 0]
NeutralElement == [x |-> 0, y |-> 1, z |-> 0]

FromAffine(x, y) == [x |-> x, y |-> y, z |-> 1]

IsNeutralElement(pt) == pt.z = 0

\* Secp256k1::generator(): from_affine(GENERATOR_X, GENERATOR_Y), scaled
GeneratorX == 8
GeneratorY == 5
Generator == FromAffine(GeneratorX, GeneratorY)

\* IsShortWeierstrass::defining_equation: y^2 - x^3 - a x - b
DefiningEquation(x, y) ==
    (y * y + (FieldP - ((x * x * x) % FieldP))
           + (FieldP - ((CurveA * x) % FieldP))
           + (FieldP - (CurveB % FieldP))) % FieldP

\* The outcomes of to_affine.  For z # 0 it is [x/z : y/z : 1].  For the
\* neutral element the library documents a panic, and its later versions
\* return [0 : 1 : 0] instead: both outcomes are kept.
ToAffine(pt) ==
    IF pt.z = 0
    THEN {[panic |-> TRUE, pt |-> NeutralElement], [panic |-> FALSE, pt |-> NeutralElement]}
    ELSE LET zi == BaseInv(pt.z)
         IN  {[panic |-> FALSE,
               pt |-> [x |-> (pt.x * zi) % FieldP, y |-> (pt.y * zi) % FieldP, z |-> 1]]}

\* the affine form of a point known not to be neutral
Affine(pt) == (CHOOSE a \in ToAffine(pt) : ~a.panic).pt

\* IsGroup::operate_with on affine representatives (the group law)
OperateWith(p1, p2) ==
    IF IsNeutralElement(p2) THEN p1
    ELSE IF IsNeutralElement(p1) THEN p2
    ELSE LET a == Affine(p1)
             b == Affine(p2)
         IN  IF a.x = b.x
             THEN IF a.y # b.y \/ a.y = 0
                  THEN NeutralElement
                  ELSE LET l  == (3 * a.x * a.x + CurveA) * BaseInv(2 * a.y) % FieldP
                           x3 == (l * l + 2 * (FieldP - a.x)) % FieldP
                           y3 == (l * (a.x + FieldP - x3) + (FieldP - a.y)) % FieldP
                       IN  FromAffine(x3, y3)
             ELSE LET l  == ((b.y + FieldP - a.y) * BaseInv(b.x + FieldP - a.x)) % FieldP
                      x3 == (l * l + (FieldP - a.x) + (FieldP - b.x)) % FieldP
                      y3 == (l * (a.x + FieldP - x3) + (FieldP - a.y)) % FieldP
                  IN  FromAffine(x3, y3)

\* IsGroup::operate_with_self: k times pt (double and add)
RECURSIVE OperateWithSelf(_, _)
OperateWithSelf(pt, k) ==
    IF k = 0 THEN NeutralElement
    ELSE LET half == OperateWithSelf(pt, k \div 2)
             dbl  == OperateWith(half, half)
         IN  IF k % 2 = 1 THEN OperateWith(dbl, pt) ELSE dbl

\* ScalarFelt::new(v): the representative of v modulo the group order
ScalarNew(v) == v % OrderN

\* PublicKey::from_private_key / from_u256
PublicKeyFromPrivateKey(e) == OperateWithSelf(Generator, e)

-----------------------------------------------------------------------------
(* ECDSA: src/src/signature.rs *)

ECDSASignatureNew(r, s) == [r |-> r, s |-> s]

\* sign with s = (z + e r) k, the inverse of the nonce forgotten
MutSignPassNoInverse(zbytes, private_key, k) ==
    LET z == ScalarNew(zbytes)
        e == ScalarNew(private_key)
        none == ECDSASignatureNew(0, 0)
        k_inv == ScalarInv(k)
    IN  IF ~k_inv.ok THEN {[ret |-> "redraw", sig |-> none]}
        ELSE { IF a.panic THEN [ret |-> "panic", sig |-> none]
               ELSE LET r == ScalarNew(a.pt.x)
                        s == ((z + e * r) * k) % OrderN
                    IN  IF r # 0 /\ s # 0
                        THEN [ret |-> "return", sig |-> ECDSASignatureNew(r, s)]
                        ELSE [ret |-> "redraw", sig |-> none]
             : a \in ToAffine(OperateWithSelf(Generator, k)) }

\* sign without the test s != 0
MutSignPassAcceptZeroS(zbytes, private_key, k) ==
    LET z == ScalarNew(zbytes)
        e == ScalarNew(private_key)
        none == ECDSASignatureNew(0, 0)
        k_inv == ScalarInv(k)
    IN  IF ~k_inv.ok THEN {[ret |-> "redraw", sig |-> none]}
        ELSE { IF a.panic THEN [ret |-> "panic", sig |-> none]
               ELSE LET r == ScalarNew(a.pt.x)
                        s == ((z + e * r) * k_inv.v) % OrderN
                    IN  IF r # 0
                        THEN [ret |-> "return", sig |-> ECDSASignatureNew(r, s)]
                        ELSE [ret |-> "redraw", sig |-> none]
             : a \in ToAffine(OperateWithSelf(Generator, k)) }

\* sign with the test on r inverted (r == 0 instead of r != 0)
MutSignPassInvertedR(zbytes, private_key, k) ==
    LET z == ScalarNew(zbytes)
        e == ScalarNew(private_key)
        none == ECDSASignatureNew(0, 0)
        k_inv == ScalarInv(k)
    IN  IF ~k_inv.ok THEN {[ret |-> "redraw", sig |-> none]}
        ELSE { IF a.panic THEN [ret |-> "panic", sig |-> none]
               ELSE LET r == ScalarNew(a.pt.x)
                        s == ((z + e * r) * k_inv.v) % OrderN
                    IN  IF r = 0 /\ s # 0
                        THEN [ret |-> "return", sig |-> ECDSASignatureNew(r, s)]
                        ELSE [ret |-> "redraw", sig |-> none]
             : a \in ToAffine(OperateWithSelf(Generator, k)) }

\* One pass of the loop of sign (lines 42-54) with the nonce k drawn:
\* [ret |-> "return", sig |-> ..] when it returns, [ret |-> "redraw"] when the
\* loop goes round again, [ret |-> "panic"] when to_affine panics.
SignPass(zbytes, private_key, k) ==
    LET z == ScalarNew(zbytes)
        e == ScalarNew(private_key)
        none == ECDSASignatureNew(0, 0)
        k_inv == ScalarInv(k)
    IN  IF ~k_inv.ok THEN {[ret |-> "redraw", sig |-> none]}
        ELSE { IF a.panic THEN [ret |-> "panic", sig |-> none]
               ELSE LET r == ScalarNew(a.pt.x)
                        s == ((z + e * r) * k_inv.v) % OrderN
                    IN  IF r # 0 /\ s # 0
                        THEN [ret |-> "return", sig |-> ECDSASignatureNew(r, s)]
                        ELSE [ret |-> "redraw", sig |-> none]
             : a \in ToAffine(OperateWithSelf(Generator, k)) }

\* verify with u = z s and v = r s, the inverse of s forgotten
MutVerifyNoInverse(zbytes, signature, public_key) ==
    IF public_key.z = 0 THEN {"false"}
    ELSE LET point == Affine(public_key)
         IN  IF DefiningEquation(point.x, point.y) # 0 THEN {"false"}
             ELSE IF ~IsNeutralElement(OperateWithSelf(point, OrderN)) THEN {"false"}
             ELSE IF signature.r # 0
                  THEN LET s_inv == ScalarInv(signature.s)
                       IN  IF s_inv.ok
                           THEN LET z == ScalarNew(zbytes)
                                    u == (z * signature.s) % OrderN
                                    v == (signature.r * signature.s) % OrderN
                                    sum == OperateWith(OperateWithSelf(Generator, u),
                                                       OperateWithSelf(point, v))
                                IN  { IF a.panic THEN "panic"
                                      ELSE IF ScalarNew(a.pt.x) = signature.r
                                           THEN "true" ELSE "false"
                                    : a \in ToAffine(sum) }
                           ELSE {"false"}
                  ELSE {"false"}

\* verify (lines 58-93): the set of its outcomes, "true", "false" or "panic"
Verify(zbytes, signature, public_key) ==
    IF public_key.z = 0 THEN {"false"}
    ELSE LET point == Affine(public_key)
         IN  IF DefiningEquation(point.x, point.y) # 0 THEN {"false"}
             ELSE IF ~IsNeutralElement(OperateWithSelf(point, OrderN)) THEN {"false"}
             ELSE IF signature.r # 0
                  THEN LET s_inv == ScalarInv(signature.s)
                       IN  IF s_inv.ok
                           THEN LET z == ScalarNew(zbytes)
                                    u == (z * s_inv.v) % OrderN
                                    v == (signature.r * s_inv.v) % OrderN
                                    sum == OperateWith(OperateWithSelf(Generator, u),
                                                       OperateWithSelf(point, v))
                                IN  { IF a.panic THEN "panic"
                                      ELSE IF ScalarNew(a.pt.x) = signature.r
                                           THEN "true" ELSE "false"
                                    : a \in ToAffine(sum) }
                           ELSE {"false"}
                  ELSE {"false"}

-----------------------------------------------------------------------------
(* Bytes and fixed-width integers *)

Byte == 0 .. 255

Zeros(n) == [i \in 1 .. n |-> 0]

Reverse(s) == [i \in 1 .. Len(s) |-> s[Len(s) + 1 - i]]

\* a numeral of w digits for the natural number n (usize as u64, literals)
RECURSIVE NatToNumeral(_, _)
NatToNumeral(n, w) ==
    IF w = 0 THEN <<>> ELSE Append(NatToNumeral(n \div 256, w - 1), n % 256)

\* a < b on numerals of the same width
RECURSIVE NumLt(_, _)
NumLt(a, b) ==
    IF a = <<>> THEN FALSE
    ELSE IF Head(a) # Head(b) THEN Head(a) < Head(b)
    ELSE NumLt(Tail(a), Tail(b))

\* n < v for a usize n and a u64 v (count < length as usize, i in 0..number)
LtNatU64(n, v) == NumLt(NatToNumeral(n, 8), v)

\* u16 / u32 as u64, u8 as u64
ZeroExtend(v, w) == Zeros(w - Len(v)) \o v

\* uN::to_le_bytes and uN::from_le_bytes: least significant byte first
ToLeBytes(v) == Reverse(v)
FromLeBytes(b) == Reverse(b)

\* &bytes[from..]; the caller has checked from <= bytes.len()
SliceFrom(bytes, from) == SubSeq(bytes, from + 1, Len(bytes))

\* the result of a parser: Ok((val, len)), Err(ParseError) or a panic
Ok(val, len) == [st |-> "ok", val |-> val, len |-> len]
Err == [st |-> "err", val |-> <<>>, len |-> 0]
Panic == [st |-> "panic", val |-> <<>>, len |-> 0]
\* no parser has run
NoResult == [st |-> "none", val |-> <<>>, len |-> 0]

\* Bind([x \in {v} |-> e]) is e for x = v (let x = v in e), v computed once
Bind(f) == f[CHOOSE x \in DOMAIN f : TRUE]

\* read_bytes::<N> (serializer/mod.rs): the first N bytes, or ParseError
ReadBytes(bytes, n) ==
    IF Len(bytes) >= n THEN Ok(SubSeq(bytes, 1, n), n) ELSE Err

-----------------------------------------------------------------------------
(* VarIntSerializer: src/src/serializer/u64.rs *)

\* VarIntSerialize writing the bytes behind the flag most significant first
MutVarIntSerializeBigEndian(uint) ==
    IF NumLt(uint, NatToNumeral(253, 8)) THEN <<uint[8]>>
    ELSE IF NumLt(uint, NatToNumeral(65536, 8))
         THEN <<253, uint[7], uint[8]>>
    ELSE IF NumLt(uint, <<0, 0, 0, 1, 0, 0, 0, 0>>)
         THEN <<254, uint[5], uint[6], uint[7], uint[8]>>
    ELSE <<255>> \o uint

\* VarIntSerialize with the first threshold one too high: 253 in one byte
MutVarIntSerializeOffByOne(uint) ==
    LET bytes == ToLeBytes(uint)
    IN  IF NumLt(uint, NatToNumeral(254, 8)) THEN <<bytes[1]>>
        ELSE IF NumLt(uint, NatToNumeral(65536, 8))
             THEN <<253, bytes[1], bytes[2]>>
        ELSE IF NumLt(uint, <<0, 0, 0, 1, 0, 0, 0, 0>>)
             THEN <<254, bytes[1], bytes[2], bytes[3], bytes[4]>>
        ELSE <<255>> \o bytes

VarIntSerialize(uint) ==
    LET bytes == ToLeBytes(uint)
    IN  IF NumLt(uint, NatToNumeral(253, 8)) THEN <<bytes[1]>>
        ELSE IF NumLt(uint, NatToNumeral(65536, 8))
             THEN <<253, bytes[1], bytes[2]>>
        ELSE IF NumLt(uint, <<0, 0, 0, 1, 0, 0, 0, 0>>)
             THEN <<254, bytes[1], bytes[2], bytes[3], bytes[4]>>
        ELSE <<255>> \o bytes

\* the arm of parse for a flag that announces n bytes
VarIntParseWide(bytes, n) ==
    Bind([int_bytes \in {ReadBytes(SliceFrom(bytes, 1), n)} |->
        IF int_bytes.st # "ok" THEN Err
        ELSE Ok(ZeroExtend(FromLeBytes(int_bytes.val), 8), n + 1)])

\* VarIntParse that enforces minimal encoding: an encoding wider than the
\* value needs is a ParseError
MutVarIntParseStrict(bytes) ==
    IF bytes = <<>> THEN Err
    ELSE Bind([r \in {IF bytes[1] < 253 THEN Ok(ZeroExtend(<<bytes[1]>>, 8), 1)
                      ELSE IF Len(bytes) < 3 THEN Err
                      ELSE IF bytes[1] = 253
                           THEN Ok(ZeroExtend(<<bytes[3], bytes[2]>>, 8), 3)
                      ELSE IF Len(bytes) < 5 THEN Err
                      ELSE IF bytes[1] = 254
                           THEN Ok(ZeroExtend(Reverse(SubSeq(bytes, 2, 5)), 8), 5)
                      ELSE IF Len(bytes) < 9 THEN Err
                      ELSE Ok(Reverse(SubSeq(bytes, 2, 9)), 9)} |->
        IF r.st = "ok" /\ Len(VarIntSerialize(r.val)) # r.len THEN Err ELSE r])

VarIntParse(bytes) ==
    IF bytes = <<>> THEN Err
    ELSE LET flag == bytes[1]
         IN  IF flag < 253 THEN Ok(ZeroExtend(<<flag>>, 8), 1)
             ELSE IF flag = 253 THEN VarIntParseWide(bytes, 2)
             ELSE IF flag = 254 THEN VarIntParseWide(bytes, 4)
             ELSE VarIntParseWide(bytes, 8)

-----------------------------------------------------------------------------
(* Script: src/src/transaction.rs, ScriptSerializer: src/src/serializer/script.rs *)

\* Command::Operation(u8) and Command::Element(Vec<u8>)
Operation(value) == [kind |-> "Operation", value |-> value, bytes |-> <<>>]
Element(bytes) == [kind |-> "Element", value |-> 0, bytes |-> bytes]

\* Script::new with the limit of the opcodes moved by one: Operation 77 passes
MutScriptNewInclusive(commands) ==
    IF \A i \in 1 .. Len(commands) :
          IF commands[i].kind = "Operation"
          THEN commands[i].value >= 77
          ELSE Len(commands[i].bytes) < 65536
    THEN [st |-> "ok", val |-> [commands |-> commands]]
    ELSE [st |-> "err", val |-> [commands |-> <<>>]]

\* Script::new: Ok(Script) or Err(InvalidCommandsError)
ScriptNew(commands) ==
    IF \A i \in 1 .. Len(commands) :
          IF commands[i].kind = "Operation"
          THEN commands[i].value > 77
          ELSE Len(commands[i].bytes) < 65536
    THEN [st |-> "ok", val |-> [commands |-> commands]]
    ELSE [st |-> "err", val |-> [commands |-> <<>>]]

\* Script::empty
ScriptEmpty == [commands |-> <<>>]

\* SerializeCommand writing the two bytes of a length behind the marker 77
\* most significant first
MutSerializeCommandLengthBigEndian(command) ==
    IF command.kind = "Operation" THEN <<command.value>>
    ELSE LET element_bytes == command.bytes
             length == Len(element_bytes)
         IN  IF length <= 75 THEN <<length>> \o element_bytes
             ELSE IF 75 < length /\ length < 256
                  THEN <<76, length % 256>> \o element_bytes
             ELSE IF 256 <= length /\ length < 65536
                  THEN <<77, (length \div 256) % 256, length % 256>> \o element_bytes
             ELSE <<>>

\* SerializeCommand without the marker 76 in front of a one-byte length
MutSerializeCommandNoMarker(command) ==
    IF command.kind = "Operation" THEN <<command.value>>
    ELSE LET element_bytes == command.bytes
             length == Len(element_bytes)
         IN  IF length < 256 THEN <<length>> \o element_bytes
             ELSE IF 256 <= length /\ length < 65536
                  THEN <<77, length % 256, (length \div 256) % 256>> \o element_bytes
             ELSE <<>>

SerializeCommand(command) ==
    IF command.kind = "Operation" THEN <<command.value>>
    ELSE LET element_bytes == command.bytes
             length == Len(element_bytes)
         IN  IF length <= 75 THEN <<length>> \o element_bytes
             ELSE IF 75 < length /\ length < 256
                  THEN <<76, length % 256>> \o element_bytes
             ELSE IF 256 <= length /\ length < 65536
                  THEN <<77, length % 256, (length \div 256) % 256>> \o element_bytes
             ELSE <<>>

\* flat_map(serialize_command) over the commands lo..hi: their serializations
\* one after the other
RECURSIVE SerializeCommands(_, _, _)
SerializeCommands(commands, lo, hi) ==
    IF lo > hi THEN <<>>
    ELSE IF lo = hi THEN SerializeCommand(commands[lo])
    ELSE LET mid == (lo + hi) \div 2
         IN  SerializeCommands(commands, lo, mid) \o SerializeCommands(commands, mid + 1, hi)

ScriptSerialize(script) ==
    LET serialized_script == SerializeCommands(script.commands, 1, Len(script.commands))
    IN  VarIntSerialize(NatToNumeral(Len(serialized_script), 8)) \o serialized_script

\* GetRange giving the bytes there are when the range ends behind the slice
MutGetRangeClamped(bytecode, from, to) ==
    IF to <= Len(bytecode) THEN Ok(SubSeq(bytecode, from + 1, to), to - from)
    ELSE Ok(SubSeq(bytecode, from + 1, Len(bytecode)), to - from)

\* bytecode.get(from..to): None when to > len
GetRange(bytecode, from, to) ==
    IF to <= Len(bytecode) THEN Ok(SubSeq(bytecode, from + 1, to), to - from) ELSE Err

\* the arms of a pass that push an element: the element_length bytes at from
ParseElement(bytecode, commands, from, element_length) ==
    Bind([element_bytes \in {GetRange(bytecode, from, from + element_length)} |->
        IF element_bytes.st # "ok" THEN Err
        ELSE Ok(Append(commands, Element(element_bytes.val)), from + element_length)])

\* one pass of the while loop of parse (lines 58-95), entered with the commands
\* parsed so far and the count reached: [st, val = commands, len = count]
ParseCommandsPass(bytecode, commands, count) ==
    IF count >= Len(bytecode) THEN Err
    ELSE Bind([value \in {bytecode[count + 1]} |->
        IF value <= 75 THEN ParseElement(bytecode, commands, count + 1, value)
        ELSE IF value = 76
        THEN IF count + 1 >= Len(bytecode) THEN Err
             ELSE ParseElement(bytecode, commands, count + 2, bytecode[count + 2])
        ELSE IF value = 77
        THEN IF count + 1 > Len(bytecode) THEN Panic
             ELSE Bind([element_length_bytes \in
                   {ReadBytes(SliceFrom(bytecode, count + 1), 2)} |->
                  IF element_length_bytes.st # "ok" THEN Err
                  ELSE ParseElement(bytecode, commands, count + 3,
                                    element_length_bytes.val[1]
                                        + 256 * element_length_bytes.val[2])])
        ELSE Ok(Append(commands, Operation(value)), count + 1)])

\* the while loop has ended: a pass failed or count has reached length
WhileDone(length, s) == s.st # "ok" \/ ~LtNatU64(s.len, length)

\* the next passes of the while loop from the state s, at most 2^k of them
RECURSIVE ParseCommandsRun(_, _, _, _)
ParseCommandsRun(bytecode, length, s, k) ==
    IF WhileDone(length, s) THEN s
    ELSE IF k = 0 THEN ParseCommandsPass(bytecode, s.val, s.len)
    ELSE Bind([t \in {ParseCommandsRun(bytecode, length, s, k - 1)} |->
             ParseCommandsRun(bytecode, length, t, k - 1)])

\* the while loop of parse (lines 57-96) from the state s: runs of 2^k, 2^(k+1),
\* ... passes until it has ended
RECURSIVE ParseCommands(_, _, _, _)
ParseCommands(bytecode, length, s, k) ==
    IF WhileDone(length, s) THEN s
    ELSE Bind([t \in {ParseCommandsRun(bytecode, length, s, k)} |->
             ParseCommands(bytecode, length, t, k + 1)])

ScriptParse(input) ==
    Bind([prefix \in {VarIntParse(input)} |->
        IF prefix.st # "ok" THEN Err
        ELSE IF prefix.len > Len(input) THEN Panic
        ELSE Bind([parsed \in
              {ParseCommands(SliceFrom(input, prefix.len), prefix.val, Ok(<<>>, 0), 0)} |->
             IF parsed.st # "ok" THEN parsed
             ELSE Bind([script \in {ScriptNew(parsed.val)} |->
                  IF script.st # "ok" THEN Err
                  ELSE Ok(script.val, prefix.len + parsed.len)])])])

-----------------------------------------------------------------------------
(* Transaction: src/src/transaction.rs,
   TransactionSerializer: src/src/serializer/transaction.rs *)

InputNew(source_id, source_index, script_sig, sequence) ==
    [source_id |-> source_id, source_index |-> source_index,
     script_sig |-> script_sig, sequence |-> sequence]

OutputNew(amount, script_pubkey) ==
    [amount |-> amount, script_pubkey |-> script_pubkey]

TransactionNew(version, inputs, outputs, locktime) ==
    [version |-> version, inputs |-> inputs, outputs |-> outputs, locktime |-> locktime]

\* SerializeInput writing the source id in the order it is held in
MutSerializeInputIdAsHeld(input) ==
    input.source_id
        \o ToLeBytes(input.source_index)
        \o ScriptSerialize(input.script_sig)
        \o ToLeBytes(input.sequence)

SerializeInput(input) ==
    Reverse(input.source_id)
        \o ToLeBytes(input.source_index)
        \o ScriptSerialize(input.script_sig)
        \o ToLeBytes(input.sequence)

SerializeOutput(output) ==
    ToLeBytes(output.amount) \o ScriptSerialize(output.script_pubkey)

\* lines 36-40 of parse_input, the source id and the source index read
ParseInputScript(bytes, source_id, source_index) ==
    Bind([script_sig \in {ScriptParse(SliceFrom(bytes, 36))} |->
        IF script_sig.st # "ok" THEN script_sig
        ELSE IF 36 + script_sig.len > Len(bytes) THEN Panic
        ELSE Bind([sequence_bytes \in {ReadBytes(SliceFrom(bytes, 36 + script_sig.len), 4)} |->
             IF sequence_bytes.st # "ok" THEN Err
             ELSE Ok(InputNew(source_id, source_index, script_sig.val,
                              FromLeBytes(sequence_bytes.val)),
                     32 + 4 + script_sig.len + 4)])])

ParseInput(bytes) ==
    Bind([source_id \in {ReadBytes(bytes, 32)} |->
        IF source_id.st # "ok" THEN Err
        ELSE IF 32 > Len(bytes) THEN Panic
        ELSE Bind([source_index_bytes \in {ReadBytes(SliceFrom(bytes, 32), 4)} |->
             IF source_index_bytes.st # "ok" THEN Err
             ELSE IF 36 > Len(bytes) THEN Panic
             ELSE ParseInputScript(bytes, Reverse(source_id.val),
                                   FromLeBytes(source_index_bytes.val))])])

ParseOutput(bytes) ==
    Bind([amount_bytes \in {ReadBytes(bytes, 8)} |->
        IF amount_bytes.st # "ok" THEN Err
        ELSE IF 8 > Len(bytes) THEN Panic
        ELSE Bind([script_pubkey \in {ScriptParse(SliceFrom(bytes, 8))} |->
             IF script_pubkey.st # "ok" THEN script_pubkey
             ELSE Ok(OutputNew(FromLeBytes(amount_bytes.val), script_pubkey.val),
                     8 + script_pubkey.len)])])

\* the two for loops of serialize (lines 60-62 and 66-68), on the items lo..hi:
\* the serializations of the items one after the other
RECURSIVE SerializeInputs(_, _, _)
SerializeInputs(inputs, lo, hi) ==
    IF lo > hi THEN <<>>
    ELSE IF lo = hi THEN SerializeInput(inputs[lo])
    ELSE LET mid == (lo + hi) \div 2
         IN  SerializeInputs(inputs, lo, mid) \o SerializeInputs(inputs, mid + 1, hi)

RECURSIVE SerializeOutputs(_, _, _)
SerializeOutputs(outputs, lo, hi) ==
    IF lo > hi THEN <<>>
    ELSE IF lo = hi THEN SerializeOutput(outputs[lo])
    ELSE LET mid == (lo + hi) \div 2
         IN  SerializeOutputs(outputs, lo, mid) \o SerializeOutputs(outputs, mid + 1, hi)

TransactionSerialize(transaction) ==
    ToLeBytes(transaction.version)
        \o VarIntSerialize(NatToNumeral(Len(transaction.inputs), 8))
        \o SerializeInputs(transaction.inputs, 1, Len(transaction.inputs))
        \o VarIntSerialize(NatToNumeral(Len(transaction.outputs), 8))
        \o SerializeOutputs(transaction.outputs, 1, Len(transaction.outputs))
        \o ToLeBytes(transaction.locktime)

\* a loop over the items of a transaction: the items parsed so far, the offset
\* reached and the number of passes made
LoopState(st, items, offset, i) == [st |-> st, val |-> items, len |-> offset, i |-> i]

\* one pass of for _ in 0..number_inputs (lines 85-87)
ParseInputsPass(bytes, s) ==
    IF s.len > Len(bytes) THEN LoopState("panic", <<>>, 0, s.i)
    ELSE Bind([input \in {ParseInput(SliceFrom(bytes, s.len))} |->
        IF input.st # "ok" THEN LoopState(input.st, <<>>, 0, s.i)
        ELSE LoopState("ok", Append(s.val, input.val), s.len + input.len, s.i + 1)])

\* one pass of for _ in 0..number_outputs (lines 94-96)
ParseOutputsPass(bytes, s) ==
    IF s.len > Len(bytes) THEN LoopState("panic", <<>>, 0, s.i)
    ELSE Bind([output \in {ParseOutput(SliceFrom(bytes, s.len))} |->
        IF output.st # "ok" THEN LoopState(output.st, <<>>, 0, s.i)
        ELSE LoopState("ok", Append(s.val, output.val), s.len + output.len, s.i + 1)])

\* the loop has ended: a pass failed or the counter has reached number
LoopDone(number, s) == s.st # "ok" \/ ~LtNatU64(s.i, number)

\* the next passes of a loop from the state s, at most 2^k of them
RECURSIVE ParseItemsRun(_, _, _, _, _)
ParseItemsRun(kind, bytes, number, s, k) ==
    IF LoopDone(number, s) THEN s
    ELSE IF k = 0
         THEN IF kind = "inputs" THEN ParseInputsPass(bytes, s)
              ELSE ParseOutputsPass(bytes, s)
    ELSE Bind([t \in {ParseItemsRun(kind, bytes, number, s, k - 1)} |->
             ParseItemsRun(kind, bytes, number, t, k - 1)])

\* all the passes of a loop from the state s: runs of 2^k, 2^(k+1), ... passes
\* until it has ended
RECURSIVE ParseItems(_, _, _, _, _)
ParseItems(kind, bytes, number, s, k) ==
    IF LoopDone(number, s) THEN s
    ELSE Bind([t \in {ParseItemsRun(kind, bytes, number, s, k)} |->
             ParseItems(kind, bytes, number, t, k + 1)])

\* for _ in 0..number_inputs (lines 84-88): [st, val = inputs, len = offset]
ParseInputs(bytes, offset, number_inputs) ==
    ParseItems("inputs", bytes, number_inputs, LoopState("ok", <<>>, offset, 0), 0)

\* for _ in 0..number_outputs (lines 93-97): [st, val = outputs, len = offset]
ParseOutputs(bytes, offset, number_outputs) ==
    ParseItems("outputs", bytes, number_outputs, LoopState("ok", <<>>, offset, 0), 0)

\* the result of a loop as the result of parse: a failed pass ends parse
LoopFailure(s) == IF s.st = "err" THEN Err ELSE Panic

\* lines 90-105 of parse, entered with the offset behind the inputs; the offset
\* moves behind the output count by num_inputs_length, as line 91 does
ParseFromOutputs(bytes, version, inputs, offset, num_inputs_length) ==
    IF offset > Len(bytes) THEN Panic
    ELSE Bind([number_outputs \in {VarIntParse(SliceFrom(bytes, offset))} |->
        IF number_outputs.st # "ok" THEN Err
        ELSE Bind([outputs \in
              {ParseOutputs(bytes, offset + num_inputs_length, number_outputs.val)} |->
             IF outputs.st # "ok" THEN LoopFailure(outputs)
             ELSE IF outputs.len > Len(bytes) THEN Panic
             ELSE Bind([locktime_bytes \in {ReadBytes(SliceFrom(bytes, outputs.len), 4)} |->
                  IF locktime_bytes.st # "ok" THEN Err
                  ELSE Ok(TransactionNew(version, inputs, outputs.val,
                                         FromLeBytes(locktime_bytes.val)),
                          outputs.len + 4)])])])

TransactionParse(bytes) ==
    Bind([version_bytes \in {ReadBytes(bytes, 4)} |->
        IF version_bytes.st # "ok" THEN Err
        ELSE IF 4 > Len(bytes) THEN Panic
        ELSE Bind([number_inputs \in {VarIntParse(SliceFrom(bytes, 4))} |->
             IF number_inputs.st # "ok" THEN Err
             ELSE Bind([inputs \in
                   {ParseInputs(bytes, 4 + number_inputs.len, number_inputs.val)} |->
                  IF inputs.st # "ok" THEN LoopFailure(inputs)
                  ELSE ParseFromOutputs(bytes, FromLeBytes(version_bytes.val),
                                        inputs.val, inputs.len, number_inputs.len)])])])

-----------------------------------------------------------------------------
(* U256 and the DER serializers: src/src/serializer/u256.rs,
   src/src/serializer/signature.rs *)

\* A U256 is its four u64 limbs, most significant limb first, each limb a
\* numeral of 8 digits.  U256::from_u64(v) for a value of one limb:
U256FromU64(v) == <<Zeros(8), Zeros(8), Zeros(8), v>>

\* FieldElement::representative of an element of the scaled fields
Representative(a) == U256FromU64(NatToNumeral(a, 8))

\* U256BigEndianSerializer::serialize: result[8 * i + j] = limbs[i].to_be_bytes()[j]
U256BigEndianSerialize(element) ==
    [k \in 1 .. 32 |-> element[((k - 1) \div 8) + 1][((k - 1) % 8) + 1]]

\* U256::from_bytes_be / from_hex_unchecked: the U256 of 32 big-endian bytes
U256FromBytes(bytes) == [i \in 1 .. 4 |-> SubSeq(bytes, 8 * i - 7, 8 * i)]

\* U256BigEndianSerializer::parse: &bytes[..32] panics on fewer than 32 bytes;
\* from_bytes_be takes any 32 bytes
U256BigEndianParse(bytes) ==
    IF 32 > Len(bytes) THEN Panic
    ELSE Ok(U256FromBytes(SubSeq(bytes, 1, 32)), 32)

\* .skip_while(|&byte| byte == 0)
RECURSIVE SkipWhileZero(_)
SkipWhileZero(bytes) ==
    IF bytes = <<>> \/ Head(bytes) # 0 THEN bytes ELSE SkipWhileZero(Tail(bytes))

\* U256DERSerializer::serialize
U256DERSerialize(element) ==
    Bind([stripped \in {SkipWhileZero(U256BigEndianSerialize(element))} |->
        Bind([serialized \in
                 {IF stripped # <<>> /\ stripped[1] > 128
                  THEN <<0>> \o stripped ELSE stripped} |->
            <<Len(serialized) % 256>> \o serialized])])

\* ECDSASignatureSerializer::serialize; signature.r and signature.s stand for
\* the representatives of the two scalars
ECDSASignatureSerialize(signature) ==
    Bind([serialized_r \in {U256DERSerialize(signature.r)} |->
        Bind([serialized_s \in {U256DERSerialize(signature.s)} |->
            <<48, (2 + Len(serialized_r) + Len(serialized_s)) % 256, 2>>
                \o serialized_r \o <<2>> \o serialized_s])])

-----------------------------------------------------------------------------
(* SEC public keys: src/src/serializer/public_key.rs *)

\* FeltSerializer::serialize
FeltSerialize(element) == U256BigEndianSerialize(Representative(element))

\* y.representative().limbs[3] & 1
LowBit(element) == Representative(element)[4][8] % 2

\* the compressed serializer with the parity taken from the most significant limb
MutCompressedOfAffineTopLimb(point) ==
    <<IF Representative(point.y)[1][8] % 2 = 0 THEN 2 ELSE 3>> \o FeltSerialize(point.x)

\* PublicKeyCompressedSerializer::serialize behind to_affine
CompressedOfAffine(point) ==
    <<IF LowBit(point.y) = 0 THEN 2 ELSE 3>> \o FeltSerialize(point.x)

\* PublicKeyUncompressedSerializer::serialize behind to_affine
UncompressedOfAffine(point) ==
    <<4>> \o FeltSerialize(point.x) \o FeltSerialize(point.y)

\* the outcomes of the two serializers: a panic where to_affine panics, else
\* the bytes
PublicKeyCompressedSerialize(point) ==
    {IF a.panic THEN Panic ELSE Ok(CompressedOfAffine(a.pt), 33) : a \in ToAffine(point)}

PublicKeyUncompressedSerialize(point) ==
    {IF a.panic THEN Panic ELSE Ok(UncompressedOfAffine(a.pt), 65) : a \in ToAffine(point)}

\* Script::p2pk with the length of the key bytes as a command of its own in
\* front of them
MutScriptP2pkLengthAsOperation(public_key, compressed) ==
    {IF b.st = "panic" THEN [st |-> "panic", val |-> [commands |-> <<>>]]
     ELSE [st |-> "ok",
           val |-> [commands |-> <<Operation(Len(b.val)), Element(b.val), Operation(172)>>]] :
        b \in IF compressed THEN PublicKeyCompressedSerialize(public_key)
              ELSE PublicKeyUncompressedSerialize(public_key)}

\* Script::p2pk (src/src/transaction.rs): the outcomes, a panic where the
\* serializer of the public key panics, else the Script
ScriptP2pk(public_key, compressed) ==
    {IF b.st = "panic" THEN [st |-> "panic", val |-> [commands |-> <<>>]]
     ELSE [st |-> "ok", val |-> [commands |-> <<Element(b.val), Operation(172)>>]] :
        b \in IF compressed THEN PublicKeyCompressedSerialize(public_key)
              ELSE PublicKeyUncompressedSerialize(public_key)}

-----------------------------------------------------------------------------
(* Hashes: src/src/hash.rs *)

\* The digests themselves are computed by the sha2 and ripemd crates, which
\* are not part of the repository.  The model keeps that they are fixed
\* functions from byte strings to 32 and to 20 bytes and puts a mixing
\* function in the place of each: Mix folds the bytes and the length into a
\* number, and each digest byte is drawn from it.
RECURSIVE Mix(_, _, _, _)
Mix(data, lo, hi, h) ==
    IF lo > hi THEN h
    ELSE IF lo = hi THEN (h * 33 + data[lo] + lo) % 65521
    ELSE Bind([g \in {Mix(data, lo, (lo + hi) \div 2, h)} |->
            Mix(data, ((lo + hi) \div 2) + 1, hi, g)])

\* sha256
Sha256(data) ==
    Bind([h \in {(Mix(data, 1, Len(data), 5381) * 31 + Len(data)) % 65521} |->
        [i \in 1 .. 32 |-> ((h + 97 * i) * (2 * i + 7) + (h \div 251)) % 256]])

\* hash256: sha256(sha256(data))
Hash256(data) == Sha256(Sha256(data))

\* ripemd160
Ripemd160(data) ==
    Bind([h \in {(Mix(data, 1, Len(data), 40037) * 31 + Len(data)) % 65521} |->
        [i \in 1 .. 20 |-> ((h + 61 * i) * (4 * i + 3) + (h \div 241)) % 256]])

\* hash160: ripemd160(sha256(data))
Hash160(data) == Ripemd160(Sha256(data))

-----------------------------------------------------------------------------
(* Addresses: src/src/address.rs.  A String is the sequence of its bytes. *)

\* Chain::code and Chain::hrp
ChainCode(chain) == IF chain = "TestNet" THEN 111 ELSE 0
ChainHrp(chain) == IF chain = "TestNet" THEN <<116, 98>> ELSE <<98, 99>>

\* a pass of the inner for loop of to_base: one step of the long division of
\* number by n, s holding the quotient (leading zeros dropped) and the remainder
DivideStep(byte, n, s) ==
    Bind([acc \in {byte + 256 * s.remainder} |->
        [quotient |-> IF acc \div n > 0 \/ s.quotient # <<>>
                      THEN Append(s.quotient, (acc \div n) % 256)
                      ELSE s.quotient,
         remainder |-> acc % n]])

\* the inner for loop of to_base over the bytes lo..hi of number
RECURSIVE DivideBy(_, _, _, _, _)
DivideBy(number, n, lo, hi, s) ==
    IF lo > hi THEN s
    ELSE IF lo = hi THEN DivideStep(number[lo], n, s)
    ELSE Bind([t \in {DivideBy(number, n, lo, (lo + hi) \div 2, s)} |->
            DivideBy(number, n, ((lo + hi) \div 2) + 1, hi, t)])

\* a pass of the while loop of to_base
ToBasePass(n, s) ==
    Bind([d \in {DivideBy(s.number, n, 1, Len(s.number),
                          [quotient |-> <<>>, remainder |-> 0])} |->
        [number |-> d.quotient,
         input_base |-> Append(s.input_base, d.remainder % 256)]])

\* the while loop of to_base: 2^k passes, or fewer when number is empty
RECURSIVE ToBaseRun(_, _, _)
ToBaseRun(n, s, k) ==
    IF s.number = <<>> THEN s
    ELSE IF k = 0 THEN ToBasePass(n, s)
    ELSE Bind([t \in {ToBaseRun(n, s, k - 1)} |-> ToBaseRun(n, t, k - 1)])

\* the while loop of to_base, as runs of 1, 2, 4, ... passes
RECURSIVE ToBaseLoop(_, _, _)
ToBaseLoop(n, s, k) ==
    IF s.number = <<>> THEN s
    ELSE Bind([t \in {ToBaseRun(n, s, k)} |-> ToBaseLoop(n, t, k + 1)])

\* to_base::<N>(bytes): the digits, least significant first
ToBase(n, bytes) ==
    ToBaseLoop(n, [number |-> bytes, input_base |-> <<>>], 0).input_base

\* input.iter().take_while(|&&byte| byte == 0).count()
LeadingZeros(input) == Len(input) - Len(SkipWhileZero(input))

\* ALPHABET of base58_encode and of encode_bech32
Base58Alphabet ==
    <<49, 50, 51, 52, 53, 54, 55, 56, 57, 65, 66, 67, 68, 69, 70, 71,
      72, 74, 75, 76, 77, 78, 80, 81, 82, 83, 84, 85, 86, 87, 88, 89,
      90, 97, 98, 99, 100, 101, 102, 103, 104, 105, 106, 107, 109, 110, 111, 112,
      113, 114, 115, 116, 117, 118, 119, 120, 121, 122>>
Bech32Alphabet ==
    <<113, 112, 122, 114, 121, 57, 120, 56, 103, 102, 50, 116, 118, 100, 119, 48,
      115, 51, 106, 110, 53, 52, 107, 104, 99, 101, 54, 109, 117, 97, 55, 108>>

\* base58_encode without the final result.reverse()
MutBase58EncodeNoReverse(input) ==
    Bind([input_base \in {ToBase(58, input)} |->
        [i \in 1 .. Len(input_base) |-> Base58Alphabet[input_base[i] + 1]]
            \o [i \in 1 .. LeadingZeros(input) |-> 49]])

\* Address::base58_encode
Base58Encode(input) ==
    Bind([input_base \in {ToBase(58, input)} |->
        Reverse([i \in 1 .. Len(input_base) |-> Base58Alphabet[input_base[i] + 1]]
                    \o [i \in 1 .. LeadingZeros(input) |-> 49])])

\* Address::base58_encode_with_checksum
Base58EncodeWithChecksum(input) ==
    Base58Encode(input \o SubSeq(Hash256(input), 1, 4))

\* a ^ b on u32 values
RECURSIVE Xor(_, _)
Xor(a, b) ==
    IF a = 0 THEN b
    ELSE IF b = 0 THEN a
    ELSE 2 * Xor(a \div 2, b \div 2) + ((a + b) % 2)

\* the constants bech32_polymod folds in for the bits 1, 2, 4, 8, 16 of c0
Bech32Generators == <<996825010, 642813549, 513874426, 1027748829, 705979059>>

\* the five ifs of a pass of bech32_polymod, from the i-th on
RECURSIVE XorGenerators(_, _, _)
XorGenerators(c, c0, i) ==
    IF i > 5 THEN c
    ELSE Bind([d \in {IF (c0 \div (2 ^ (i - 1))) % 2 = 1
                      THEN Xor(c, Bech32Generators[i]) ELSE c} |->
            XorGenerators(d, c0, i + 1)])

\* a pass of the loop of bech32_polymod
PolymodPass(c, v_i) ==
    XorGenerators(Xor((c % 33554432) * 32, v_i), (c \div 33554432) % 256, 1)

\* the loop of bech32_polymod over the bytes lo..hi
RECURSIVE PolymodOver(_, _, _, _)
PolymodOver(bytes, lo, hi, c) ==
    IF lo > hi THEN c
    ELSE IF lo = hi THEN PolymodPass(c, bytes[lo])
    ELSE Bind([d \in {PolymodOver(bytes, lo, (lo + hi) \div 2, c)} |->
            PolymodOver(bytes, ((lo + hi) \div 2) + 1, hi, d)])

\* Address::bech32_polymod
Bech32Polymod(bytes) == PolymodOver(bytes, 1, Len(bytes), 1)

\* Address::expand_human_readable_part
ExpandHumanReadablePart(bytes) ==
    <<bytes[1] \div 32, bytes[2] \div 32, 0, bytes[1] % 32, bytes[2] % 32>>

\* bech32_checksum with the groups taken least significant first
MutBech32ChecksumReversed(bytes, chain) ==
    Bind([m \in {Xor(Bech32Polymod(ExpandHumanReadablePart(ChainHrp(chain))
                                       \o bytes \o Zeros(6)), 1)} |->
        [i \in 1 .. 6 |-> ((m \div (32 ^ (i - 1))) % 256) % 32]])

\* Address::bech32_checksum: result[i] = ((m >> (5 * (5 - i))) as u8) & 31
Bech32Checksum(bytes, chain) ==
    Bind([m \in {Xor(Bech32Polymod(ExpandHumanReadablePart(ChainHrp(chain))
                                       \o bytes \o Zeros(6)), 1)} |->
        [i \in 1 .. 6 |-> ((m \div (32 ^ (6 - i))) % 256) % 32]])

\* the data groups of encode_bech32: to_base::<32>, push(0), reverse
Bech32Groups(bytes) == Reverse(Append(ToBase(32, bytes), 0))

\* encode_bech32 taking the checksum of the groups of the payload alone, the
\* group pushed in front of them left out
MutEncodeBech32ChecksumOfPayload(bytes, chain) ==
    Bind([input_base_32 \in {Bech32Groups(bytes)} |->
        Bind([checksum \in {Bech32Checksum(Tail(input_base_32), chain)} |->
            ChainHrp(chain) \o <<49>>
                \o [i \in 1 .. Len(input_base_32) |-> Bech32Alphabet[input_base_32[i] + 1]]
                \o [i \in 1 .. 6 |-> Bech32Alphabet[checksum[i] + 1]]])])

\* Address::encode_bech32
EncodeBech32(bytes, chain) ==
    Bind([input_base_32 \in {Bech32Groups(bytes)} |->
        Bind([checksum \in {Bech32Checksum(input_base_32, chain)} |->
            ChainHrp(chain) \o <<49>>
                \o [i \in 1 .. Len(input_base_32) |-> Bech32Alphabet[input_base_32[i] + 1]]
                \o [i \in 1 .. 6 |-> Bech32Alphabet[checksum[i] + 1]]])])

\* Address::from_serialized_public_key_base58_check
FromSerializedPublicKeyBase58Check(data, chain) ==
    Base58EncodeWithChecksum(<<ChainCode(chain)>> \o Hash160(data))

\* Address::new with the version byte behind the hash
MutAddressOfSerializedVersionLast(public_key_bytes, chain, encoding) ==
    IF encoding = "Bech32" THEN EncodeBech32(Hash160(public_key_bytes), chain)
    ELSE Base58EncodeWithChecksum(Hash160(public_key_bytes) \o <<ChainCode(chain)>>)

\* the arms of Address::new behind the serializer of the public key
AddressOfSerialized(public_key_bytes, chain, encoding) ==
    IF encoding = "Bech32" THEN EncodeBech32(Hash160(public_key_bytes), chain)
    ELSE FromSerializedPublicKeyBase58Check(public_key_bytes, chain)

\* Address::new: the outcomes, a panic where the serializer panics
AddressNew(public_key, chain, encoding) ==
    {IF b.st = "panic" THEN Panic
     ELSE Bind([address \in {AddressOfSerialized(b.val, chain, encoding)} |->
              Ok(address, Len(address))]) :
        b \in IF encoding = "UncompressedBase58"
              THEN PublicKeyUncompressedSerialize(public_key)
              ELSE PublicKeyCompressedSerialize(public_key)}

-----------------------------------------------------------------------------
(* The callers of the ECDSA engine *)

Digests == 0 .. DigestMax
PrivateKeys == 0 .. KeyMax

\* every value a Point can hold here: the neutral element and every affine pair,
\* on the curve or not (PublicKey::new trusts its source)
Points == {NeutralElement} \cup {FromAffine(x, y) : x \in BaseFelts, y \in BaseFelts}

NoSig == ECDSASignatureNew(0, 0)
NoCall == [z |-> 0, sig |-> NoSig, pk |-> NeutralElement]

InitSig ==
    /\ pc = "idle"
    /\ zd \in Digests
    /\ key = 0
    /\ nonce = 0
    /\ draws = 0
    /\ sig = NoSig
    /\ vin = NoCall
    /\ vres = "none"
    /\ vkind = "none"
    /\ vbase = NoCall
    /\ ckind = "none"
    /\ cstage = "none"
    /\ cedit = "none"
    /\ carg = <<>>
    /\ cbytes = <<>>
    /\ cres = NoResult

\* sign(z, private_key, random) is entered with some private key
CallSign ==
    /\ pc = "idle"
    /\ pc' = "loop"
    /\ key' \in PrivateKeys
    /\ UNCHANGED <<zd, nonce, draws, sig, vin, vres, vkind, vbase>>
    /\ UNCHANGED codecVars

\* r and s of the signature the nonce k gives, from the definition of ECDSA
NonceR(k) == OperateWithSelf(Generator, k).x % OrderN
NonceS(z, e, k) == ((z + e * NonceR(k)) * ScalarInv(k).v) % OrderN
Degenerate(z, e, k) == k % OrderN = 0 \/ NonceR(k) = 0 \/ NonceS(z, e, k) = 0

\* the nonces k with k # 0, r # 0 and s # 0
GoodNonces(z, e) == {k \in ScalarFelts : ~Degenerate(z, e, k)}

\* SignPass and GoodNonces on every input of the model, evaluated once
SignPassOn == [z \in Digests, e \in PrivateKeys, k \in ScalarFelts |-> SignPass(z, e, k)]
GoodNoncesOn == [z \in Digests, e \in PrivateKeys |-> GoodNonces(z, e)]

\* one pass of the loop of sign, random.random_scalar() returning k
DrawOf(k) ==
    /\ \E o \in SignPassOn[zd, key, k] :
          /\ pc' = CASE o.ret = "return" -> "signed"
                      [] o.ret = "redraw" -> "loop"
                      [] OTHER -> "panic"
          /\ sig' = o.sig
    /\ nonce' = k
    /\ draws' = IF draws < MaxDraws THEN draws + 1 ELSE draws
    /\ UNCHANGED <<zd, key, vin, vres, vkind, vbase>>
    /\ UNCHANGED codecVars

\* a pass of the loop with any nonce the generator can return
Draw ==
    /\ pc = "loop"
    /\ \E k \in ScalarFelts : DrawOf(k)

\* a pass of the loop with a nonce that lets it return
DrawGood ==
    /\ pc = "loop"
    /\ \E k \in GoodNoncesOn[zd, key] : DrawOf(k)

\* verify(z, signature, public_key) is called and its outcome kept
CallVerify(kind, z, signature, public_key) ==
    /\ vin' = [z |-> z, sig |-> signature, pk |-> public_key]
    /\ vres' \in Verify(z, signature, public_key)
    /\ vkind' = kind
    /\ UNCHANGED <<zd, key, nonce, draws, sig>>
    /\ UNCHANGED codecVars

\* the signature sign returned is verified against the key's public key
VerifyOwn ==
    /\ pc = "signed"
    /\ pc' = "verified"
    /\ vbase' = vbase
    /\ CallVerify("own", zd, sig, PublicKeyFromPrivateKey(key))

\* verify on any signature and any point
VerifyAny ==
    /\ pc = "idle"
    /\ pc' = "checked"
    /\ vbase' = vbase
    /\ \E r \in ScalarFelts, s \in ScalarFelts, pt \in Points :
          CallVerify("any", zd, ECDSASignatureNew(r, s), pt)

Accepted == pc \in {"verified", "checked"} /\ vres = "true"

\* an accepted triple is verified again with r changed
TamperR ==
    /\ Accepted
    /\ pc' = "tampered"
    /\ vbase' = vin
    /\ \E r \in ScalarFelts \ {vin.sig.r} :
          CallVerify("r", vin.z, ECDSASignatureNew(r, vin.sig.s), vin.pk)

\* ... with s changed
TamperS ==
    /\ Accepted
    /\ pc' = "tampered"
    /\ vbase' = vin
    /\ \E s \in ScalarFelts \ {vin.sig.s} :
          CallVerify("s", vin.z, ECDSASignatureNew(vin.sig.r, s), vin.pk)

\* ... with the generator added to the public key
TamperKey ==
    /\ Accepted
    /\ pc' = "tampered"
    /\ vbase' = vin
    /\ CallVerify("key", vin.z, vin.sig, OperateWith(vin.pk, Generator))

NextSign ==
    \/ CallSign
    \/ Draw

NextSig ==
    \/ CallSign
    \/ Draw
    \/ VerifyOwn
    \/ VerifyAny
    \/ TamperR
    \/ TamperS
    \/ TamperKey

SpecSig == InitSig /\ [][NextSig]_vars

SpecSign == InitSig /\ [][NextSign]_vars

\* the random generator eventually returns a nonce that lets the loop return
SpecSignFair == SpecSign /\ WF_vars(DrawGood)

\* the loop of sign keeps making passes while it has not returned, whatever the
\* random generator returns
SpecSignLoop == SpecSign /\ WF_vars(Draw)

-----------------------------------------------------------------------------
(* The callers of the codecs *)

\* the byte strings over the bytes of S with at most n bytes
BSeq(S, n) == UNION {[1 .. k -> S] : k \in 0 .. n}

\* n bytes, no two neighbours equal, the markers 75, 76, 77 and 253 among them
Fill(n) == [i \in 1 .. n |-> (i + 74) % 256]

U64Of(n) == NatToNumeral(n, 8)

\* u64 values on both sides of every threshold of the VarInt encoding
U64Values ==
    {U64Of(0), U64Of(1), U64Of(252), U64Of(253), U64Of(254), U64Of(255), U64Of(256),
     U64Of(258), U64Of(65535), U64Of(65536), U64Of(16909060),
     <<0, 0, 0, 0, 255, 255, 255, 255>>, <<0, 0, 0, 1, 0, 0, 0, 0>>,
     <<1, 2, 3, 4, 5, 6, 7, 8>>, <<255, 255, 255, 255, 255, 255, 255, 255>>}

U32Values == {<<1, 2, 3, 4>>, <<255, 255, 255, 254>>}

TailBytes == {0, 7, 253, 255}
Tails == BSeq(TailBytes, TailMax) \ {<<>>}

\* the commands of the scripts: opcodes above 77 and elements on both sides of
\* every threshold of the push encoding
ElementLengths == {0, 1, 75, 76, 255, 256}
Commands ==
    {Operation(78), Operation(172), Operation(255)}
        \cup {Element(Fill(n)) : n \in ElementLengths}

\* scripts with an element of the greatest length Script::new accepts
LongScripts ==
    {ScriptNew(c).val :
        c \in {<<Element(Fill(65535))>>,
               <<Operation(172), Element(Fill(65535)), Element(<<>>)>>}}

\* the Scripts that Script::new accepts, over these commands
Scripts == {ScriptNew(c).val : c \in BSeq(Commands, MaxCommands)} \cup LongScripts

\* command lists handed to Script::new: the commands above, opcodes Script::new
\* refuses, and elements on both sides of the greatest length
AnyCommands == Commands \cup {Operation(0), Operation(1), Operation(77)}
LongCommandLists ==
    {<<Operation(80), Element(Fill(65535)), Operation(107)>>,
     <<Operation(80), Element(Fill(65536)), Operation(107)>>,
     <<Element(Fill(65536))>>}
CommandLists == BSeq(AnyCommands, MaxCommands) \cup LongCommandLists

\* the scripts of the inputs and outputs of the transactions
TxScripts ==
    <<ScriptEmpty,
      [commands |-> <<Element(Fill(33)), Operation(172)>>],
      [commands |-> <<Element(Fill(76))>>],
      [commands |-> <<Operation(118), Element(Fill(256)), Operation(136)>>]>>

\* the first items of a transaction carry these scripts, the others the empty one
PickScript(j) == IF j < Len(TxScripts) THEN TxScripts[j + 1] ELSE ScriptEmpty
PickU32(j) == NatToNumeral(j * 65537 + 1, 4)

\* the j-th input and the j-th output of a transaction, seed varying their fields
InputOf(j, seed) ==
    InputNew([i \in 1 .. 32 |-> (i + j) % 256], PickU32(j + seed),
             PickScript(j + seed), PickU32(j + 2 * seed))
OutputOf(j, seed) ==
    OutputNew(<<0, 0, seed, 0, 1, 2, j % 256, j \div 256>>, PickScript(j + seed + 1))

\* how many inputs or outputs a transaction has: on both sides of the first
\* threshold of the count VarInt
Counts == {0, 1, 2, 253}
Seeds == {0}

Transactions ==
    {TransactionNew(v, [j \in 1 .. n |-> InputOf(j, seed)],
                    [j \in 1 .. m |-> OutputOf(j, seed)], l) :
        v \in U32Values, n \in Counts, m \in Counts, seed \in Seeds, l \in U32Values}

\* bytes from the wire: length prefixes, push markers, opcodes, VarInt flags
RawBytes == {0, 1, 2, 3, 76, 77, 78, 253}
RawScripts == BSeq(RawBytes, RawMax)
\* payloads behind a VarInt flag, cut on both sides of what the flag announces
WidePayloads ==
    {<<1, 0, 0, 0, 0, 0, 0, 0, 9>>, <<1, 2, 3, 4, 5, 6, 7, 8, 9>>,
     <<255, 255, 255, 255, 255, 255, 255, 255, 255>>}
RawVarInts ==
    BSeq({0, 1, 252, 253, 254, 255}, RawMax)
        \cup {<<f>> \o SubSeq(p, 1, n) : f \in {253, 254, 255}, p \in WidePayloads,
                                         n \in 0 .. 9}
\* a version, free bytes where the counts are, and a locktime or none
RawTransactions ==
    {<<1, 0, 0, 0>> \o t \o l : t \in BSeq({0, 1, 253}, RawMax),
                                 l \in {<<>>, <<0, 0, 0, 0>>}}

\* public keys: every pair of coordinates in every projective form with z up
\* to ProjectiveMax, and the neutral element
PublicKeys ==
    {NeutralElement}
        \cup {[x |-> (x * z) % FieldP, y |-> (y * z) % FieldP, z |-> z] :
                  x \in BaseFelts, y \in BaseFelts, z \in 1 .. ProjectiveMax}

\* where a serialization of n bytes is cut to a strict prefix
CutPoints(n) == {k \in 0 .. n - 1 : k <= CutNear \/ k >= n - CutNear}

InitCodec ==
    /\ pc = "idle"
    /\ zd = 0
    /\ key = 0
    /\ nonce = 0
    /\ draws = 0
    /\ sig = NoSig
    /\ vin = NoCall
    /\ vres = "none"
    /\ vkind = "none"
    /\ vbase = NoCall
    /\ cres = NoResult
    /\ \/ /\ cstage = "value"
          /\ cedit = "none"
          /\ cbytes = <<>>
          /\ \/ ckind = "commands" /\ carg \in CommandLists
             \/ ckind = "empty" /\ carg = <<>>
             \/ ckind = "p2pk" /\ carg \in [public_key : PublicKeys, compressed : BOOLEAN]
             \/ ckind = "varint" /\ carg \in U64Values
             \/ ckind = "script" /\ carg \in Scripts
             \/ ckind = "transaction" /\ carg \in Transactions
       \/ /\ cstage = "bytes"
          /\ cedit = "raw"
          /\ carg = <<>>
          /\ \/ ckind = "varint" /\ cbytes \in RawVarInts
             \/ ckind = "script" /\ cbytes \in RawScripts
             \/ ckind = "transaction" /\ cbytes \in RawTransactions

\* serialize(carg) of the codec in use
Serialized(bytes) ==
    /\ cstage = "value"
    /\ cstage' = "bytes"
    /\ cbytes' = bytes
    /\ UNCHANGED <<ckind, cedit, carg, cres>>
    /\ UNCHANGED sigVars

SerializeVarInt == ckind = "varint" /\ Serialized(VarIntSerialize(carg))
SerializeScript == ckind = "script" /\ Serialized(ScriptSerialize(carg))
SerializeTransaction == ckind = "transaction" /\ Serialized(TransactionSerialize(carg))

\* Script::new(carg)
NewScript ==
    /\ ckind = "commands"
    /\ cstage = "value"
    /\ cstage' = "built"
    /\ cres' = ScriptNew(carg)
    /\ UNCHANGED <<ckind, cedit, carg, cbytes>>
    /\ UNCHANGED sigVars

\* Script::empty()
EmptyScript ==
    /\ ckind = "empty"
    /\ cstage = "value"
    /\ cstage' = "built"
    /\ cres' = [st |-> "ok", val |-> ScriptEmpty]
    /\ UNCHANGED <<ckind, cedit, carg, cbytes>>
    /\ UNCHANGED sigVars

\* Script::p2pk(carg.public_key, carg.compressed)
P2pkScript ==
    /\ ckind = "p2pk"
    /\ cstage = "value"
    /\ cstage' = "built"
    /\ cres' \in ScriptP2pk(carg.public_key, carg.compressed)
    /\ UNCHANGED <<ckind, cedit, carg, cbytes>>
    /\ UNCHANGED sigVars

\* more bytes follow the serialized value on the wire
AppendTail ==
    /\ cstage = "bytes"
    /\ cedit = "none"
    /\ ckind = "varint"
    /\ \E t \in Tails : cbytes' = cbytes \o t
    /\ cedit' = "tail"
    /\ UNCHANGED <<ckind, cstage, carg, cres>>
    /\ UNCHANGED sigVars

\* the wire delivers a strict prefix of the serialized value
Truncate ==
    /\ cstage = "bytes"
    /\ cedit = "none"
    /\ ckind \in {"script", "transaction"}
    /\ \E k \in CutPoints(Len(cbytes)) : cbytes' = SubSeq(cbytes, 1, k)
    /\ cedit' = "prefix"
    /\ UNCHANGED <<ckind, cstage, carg, cres>>
    /\ UNCHANGED sigVars

\* parse(cbytes) of the codec in use
Parsed(result) ==
    /\ cstage = "bytes"
    /\ cstage' = "parsed"
    /\ cres' = result
    /\ UNCHANGED <<ckind, cedit, carg, cbytes>>
    /\ UNCHANGED sigVars

ParseVarInt == ckind = "varint" /\ Parsed(VarIntParse(cbytes))
ParseScript == ckind = "script" /\ Parsed(ScriptParse(cbytes))
ParseTransaction == ckind = "transaction" /\ Parsed(TransactionParse(cbytes))

NextCodec ==
    \/ NewScript
    \/ EmptyScript
    \/ P2pkScript
    \/ SerializeVarInt
    \/ SerializeScript
    \/ SerializeTransaction
    \/ AppendTail
    \/ Truncate
    \/ ParseVarInt
    \/ ParseScript
    \/ ParseTransaction

SpecCodec == InitCodec /\ [][NextCodec]_vars

-----------------------------------------------------------------------------
(* The callers of the encoders *)

Chains == {"TestNet", "MainNet"}
Encodings == {"CompressedBase58", "UncompressedBase58", "Bech32"}

\* the values of the serializer tests
FixtureElement ==
    <<0, 0, 0, 0, 0, 0, 0, 5, 198, 63, 220, 120, 109, 106, 107, 144,
      64, 128, 181, 143, 114, 237, 176, 141, 161, 207, 45, 48, 149, 57, 51, 106>>
FixtureR ==
    <<55, 32, 106, 6, 16, 153, 92, 88, 7, 73, 153, 203, 151, 103, 184, 122,
      244, 196, 151, 141, 182, 140, 6, 232, 230, 232, 29, 40, 32, 71, 167, 198>>
FixtureS ==
    <<140, 166, 55, 89, 193, 21, 126, 190, 174, 192, 208, 60, 236, 202, 17, 159,
      201, 167, 91, 248, 230, 208, 250, 101, 200, 65, 200, 226, 115, 140, 218, 236>>

\* 256-bit values: zero, and every first non-zero byte on both sides of the
\* high bit, followed by 0 to 31 more bytes
LeadBytes == {1, 127, 128, 129, 255}
FollowLengths == {0, 1, 7, 8, 31}
U256Values ==
    {U256FromBytes(Zeros(32)), U256FromBytes(FixtureElement),
     U256FromBytes(FixtureR), U256FromBytes(FixtureS)}
        \cup {U256FromBytes(Zeros(31 - k) \o <<b>> \o SubSeq(f, 1, k)) :
                  b \in LeadBytes, k \in FollowLengths, f \in {Fill(31), Zeros(31)}}

Signatures == {ECDSASignatureNew(r, s) : r \in U256Values, s \in U256Values}

\* the byte strings of test_base58_encoding_1 and test_base58_encoding_2
Base58Fixture1 ==
    <<124, 7, 111, 243, 22, 105, 42, 61, 126, 179, 195, 187, 15, 139, 20, 136,
      207, 114, 225, 175, 205, 146, 158, 41, 48, 112, 50, 153, 122, 131, 138, 61>>
Base58Fixture2 ==
    <<239, 246, 158, 242, 177, 189, 147, 166, 110, 213, 33, 154, 221, 79, 181, 30,
      17, 168, 64, 244, 4, 135, 99, 37, 161, 232, 255, 224, 82, 154, 44>>
Base58Fixtures == {Base58Fixture1, Base58Fixture2}

\* inputs of base58_encode: short strings with and without leading zero
\* bytes, strings of zero bytes only, and the fixtures behind 0 to 2 zero bytes
Base58Inputs ==
    BSeq({0, 1, 57, 58, 255}, Base58Max)
        \cup {Zeros(k) : k \in {20, 25}}
        \cup {Zeros(k) \o f : k \in 0 .. 2, f \in Base58Fixtures}

\* the payload of test_bech32_encoding and the groups of test_bech32_checksum
Bech32FixturePayload ==
    <<117, 30, 118, 232, 25, 145, 150, 212, 84, 148, 28, 69, 209, 179, 163, 35,
      241, 67, 59, 214>>
Bech32FixtureGroups ==
    <<0, 14, 20, 15, 7, 13, 26, 0, 25, 18, 6, 11, 13, 8, 21, 4,
      20, 3, 17, 2, 29, 3, 12, 29, 3, 4, 15, 24, 20, 6, 14, 30,
      22>>

\* 20-byte payloads: with 0 to 160 leading zero bits
Payloads ==
    {Bech32FixturePayload, Zeros(20), Zeros(19) \o <<1>>, [i \in 1 .. 20 |-> 255]}
        \cup {Zeros(k) \o <<b>> \o Fill(19 - k) :
                  b \in {1, 7, 8, 16, 128}, k \in 0 .. PayloadZeros}

\* sequences of 5-bit groups
GroupSeqs == BSeq({0, 1, 15, 31}, GroupsMax) \cup {Bech32FixtureGroups}

InitEnc ==
    /\ pc = "idle"
    /\ zd = 0
    /\ key = 0
    /\ nonce = 0
    /\ draws = 0
    /\ sig = NoSig
    /\ vin = NoCall
    /\ vres = "none"
    /\ vkind = "none"
    /\ vbase = NoCall
    /\ cres = NoResult
    /\ cstage = "value"
    /\ cedit = "none"
    /\ cbytes = <<>>
    /\ \/ ckind = "der" /\ carg \in U256Values
       \/ ckind = "u256" /\ carg \in U256Values
       \/ ckind = "signature" /\ carg \in Signatures
       \/ ckind \in {"compressed", "uncompressed"} /\ carg \in PublicKeys
       \/ ckind = "base58" /\ carg \in Base58Inputs
       \/ ckind = "checksum" /\ carg \in [bytes : GroupSeqs, chain : Chains]
       \/ ckind = "bech32" /\ carg \in [bytes : Payloads, chain : Chains]
       \/ ckind = "address"
             /\ carg \in [public_key : PublicKeys, chain : Chains, encoding : Encodings]

\* a call of an encoder on carg that ends with result
Encoded(result) ==
    /\ cstage = "value"
    /\ cstage' = "encoded"
    /\ cres' = result
    /\ UNCHANGED <<ckind, cedit, carg, cbytes>>
    /\ UNCHANGED sigVars

\* the value an encoder returned
Returned(bytes) == Ok(bytes, Len(bytes))

SerializeDER == ckind = "der" /\ Encoded(Returned(U256DERSerialize(carg)))
SerializeSignature ==
    ckind = "signature" /\ Encoded(Returned(ECDSASignatureSerialize(carg)))
SerializeCompressed ==
    /\ ckind = "compressed"
    /\ \E r \in PublicKeyCompressedSerialize(carg) : Encoded(r)
SerializeUncompressed ==
    /\ ckind = "uncompressed"
    /\ \E r \in PublicKeyUncompressedSerialize(carg) : Encoded(r)
EncodeBase58 == ckind = "base58" /\ Encoded(Returned(Base58Encode(carg)))
ChecksumBech32 ==
    ckind = "checksum" /\ Encoded(Returned(Bech32Checksum(carg.bytes, carg.chain)))
EncodePayloadBech32 ==
    ckind = "bech32" /\ Encoded(Returned(EncodeBech32(carg.bytes, carg.chain)))
NewAddress ==
    /\ ckind = "address"
    /\ \E r \in AddressNew(carg.public_key, carg.chain, carg.encoding) : Encoded(r)

\* U256BigEndianSerializer::serialize(carg)
SerializeU256 ==
    /\ ckind = "u256"
    /\ cstage = "value"
    /\ cstage' = "bytes"
    /\ cbytes' = U256BigEndianSerialize(carg)
    /\ UNCHANGED <<ckind, cedit, carg, cres>>
    /\ UNCHANGED sigVars

\* the wire delivers fewer than the 32 bytes
TruncateU256 ==
    /\ ckind = "u256"
    /\ cstage = "bytes"
    /\ cedit = "none"
    /\ \E k \in {0, 1, 16, 31} : cbytes' = SubSeq(cbytes, 1, k)
    /\ cedit' = "prefix"
    /\ UNCHANGED <<ckind, cstage, carg, cres>>
    /\ UNCHANGED sigVars

\* more bytes follow the 32 on the wire
ExtendU256 ==
    /\ ckind = "u256"
    /\ cstage = "bytes"
    /\ cedit = "none"
    /\ \E t \in {<<1>>, <<255, 0>>} : cbytes' = cbytes \o t
    /\ cedit' = "tail"
    /\ UNCHANGED <<ckind, cstage, carg, cres>>
    /\ UNCHANGED sigVars

\* U256BigEndianSerializer::parse(cbytes)
ParseU256 ==
    /\ ckind = "u256"
    /\ cstage = "bytes"
    /\ cstage' = "parsed"
    /\ cres' = U256BigEndianParse(cbytes)
    /\ UNCHANGED <<ckind, cedit, carg, cbytes>>
    /\ UNCHANGED sigVars

NextEnc ==
    \/ SerializeU256
    \/ TruncateU256
    \/ ExtendU256
    \/ ParseU256
    \/ SerializeDER
    \/ SerializeSignature
    \/ SerializeCompressed
    \/ SerializeUncompressed
    \/ EncodeBase58
    \/ ChecksumBech32
    \/ EncodePayloadBech32
    \/ NewAddress

SpecEnc == InitEnc /\ [][NextEnc]_vars

-----------------------------------------------------------------------------
(* Claims about the ECDSA engine *)

XOfSum(c) ==
    LET s_inv == ScalarInv(c.sig.s).v
        u == (c.z * s_inv) % OrderN
        v == (c.sig.r * s_inv) % OrderN
    IN  OperateWith(OperateWithSelf(Generator, u), OperateWithSelf(c.pk, v))

OnCurve(pt) == (pt.y * pt.y) % FieldP = (pt.x * pt.x * pt.x + CurveB) % FieldP

C2_Conditions(c) ==
    /\ c.pk # NeutralElement
    /\ OnCurve(c.pk)
    /\ OperateWithSelf(c.pk, OrderN) = NeutralElement
    /\ c.sig.r # 0
    /\ c.sig.s # 0
    /\ XOfSum(c) # NeutralElement
    /\ XOfSum(c).x % OrderN = c.sig.r

\* C2: verify returns true exactly under the six conditions, returns false for
\* every other input, and never panics.
C2_VerifyExact ==
    vres # "none" =>
        /\ vres # "panic"
        /\ vres = "true" <=> C2_Conditions(vin)

\* the part of C2 that holds: verify returns true exactly under the six conditions
C2_TrueExactly ==
    vres # "none" => (vres = "true" <=> C2_Conditions(vin))

\* ... and it panics only where u*G + v*P is the point at infinity
C2_PanicOnlyAtInfinity ==
    vres = "panic" =>
        /\ vin.pk # NeutralElement /\ OnCurve(vin.pk)
        /\ vin.sig.r # 0 /\ vin.sig.s # 0
        /\ XOfSum(vin) = NeutralElement

\* C3: sign never returns r = 0 or s = 0 and never accepts a nonce that is 0
\* (without inverse): after a pass of the loop with a nonce k that is 0 or
\* gives r = 0 or s = 0 the loop goes round again, and a returned signature
\* is the one of a non-degenerate nonce.
C3_NoDegenerateNonce ==
    /\ pc = "signed" =>
          /\ nonce # 0 /\ sig.r # 0 /\ sig.s # 0
          /\ sig = ECDSASignatureNew(NonceR(nonce), NonceS(zd, key, nonce))
    /\ (pc \in {"loop", "signed", "panic"} /\ draws > 0 /\ Degenerate(zd, key, nonce))
          => pc = "loop"

C3_Witness ==
    pc = "loop" /\ draws > 0 /\ nonce = 0

\* C4: sign never fails, and when the random generator eventually returns a
\* nonce with k # 0, r # 0 and s # 0, every call of sign eventually returns.
InLoopWithGoodNonce == pc = "loop" /\ GoodNoncesOn[zd, key] # {}
SignReturned == pc = "signed"
SignPanicked == pc = "panic"

C4_SignEventuallyReturns ==
    /\ []~SignPanicked
    /\ [](InLoopWithGoodNonce => <>SignReturned)

C4_Witness ==
    pc = "signed" /\ draws = 2 /\ GoodNonces(zd, key) # ScalarFelts \ {0}

DLog(pt) == CHOOSE e \in 0 .. (OrderN - 1) : OperateWithSelf(Generator, e) = pt

\* the nonce (z + r e) / s a triple stands for, and whether the triple
\* satisfies the verification equation
NonceOf(c) == ((c.z + c.sig.r * DLog(c.pk)) * ScalarInv(c.sig.s).v) % OrderN
SatisfiesEquation(c) ==
    /\ c.pk # NeutralElement /\ c.sig.r # 0 /\ c.sig.s # 0
    /\ NonceOf(c) # 0
    /\ NonceR(NonceOf(c)) = c.sig.r

C5_WitnessKey ==
    /\ pc = "tampered" /\ vkind = "key" /\ vres = "true"

C5_WitnessR ==
    /\ pc = "tampered" /\ vkind = "r" /\ vres = "true"

C5_WitnessRejected ==
    /\ pc = "tampered" /\ vres = "false"

-----------------------------------------------------------------------------
(* The codecs: claims C6 to C10 *)

RoundTripped(kind) == ckind = kind /\ cstage = "parsed" /\ cedit = "none"

\* C6 as stated: for every Transaction t built from valid Scripts, with any
\* number of inputs and outputs, parse(serialize(t)) succeeds and returns
\* (t, length of serialize(t)).
C6_TransactionRoundTrip ==
    RoundTripped("transaction") => cres = Ok(carg, Len(cbytes))

\* the width of the VarInt of a count
CountWidth(items) == Len(VarIntSerialize(U64Of(Len(items))))

\* what the round trip does give: (t, length) when the two counts are as wide
\* as each other
C6_RoundTripEqualWidths ==
    (RoundTripped("transaction") /\ CountWidth(carg.inputs) = CountWidth(carg.outputs))
        => cres = Ok(carg, Len(cbytes))

\* C7: for every Script s that Script::new accepts (every Operation above 77,
\* every Element shorter than 0x10000 bytes, empty Elements and the empty script
\* included), parse(serialize(s)) succeeds and returns (s, length of serialize(s)).
C7_ScriptRoundTrip ==
    RoundTripped("script") =>
        /\ ScriptNew(carg.commands).st = "ok"
        /\ cres = Ok(carg, Len(cbytes))

C7_Witness ==
    /\ RoundTripped("script")
    /\ carg.commands = <<Element(Fill(256)), Element(<<>>)>>
    /\ cres.st = "ok"
    /\ cres.len = 263

\* C8: for every u64 v and every byte string t put behind it,
\* parse(serialize(v) ++ t) returns (v, length of serialize(v)): the bytes of t
\* change neither the value nor the count of bytes consumed.
C8_VarIntRoundTrip ==
    (ckind = "varint" /\ cstage = "parsed" /\ cedit \in {"none", "tail"}) =>
        /\ cres = Ok(carg, Len(VarIntSerialize(carg)))
        /\ cedit = "tail" => cres.len < Len(cbytes)
        /\ cedit = "none" => cres.len = Len(cbytes)

C8_Witness ==
    /\ ckind = "varint" /\ cstage = "parsed" /\ cedit = "tail"
    /\ carg = U64Of(65536)
    /\ cres.st = "ok"
    /\ cres.len = 5
    /\ Len(cbytes) = 7

\* C9 as stated: TransactionSerializer::parse returns Ok or ParseError on every
\* byte string (truncated, malformed, with count VarInts wider than needed); it
\* never panics.
C9_TransactionParseTotal ==
    (ckind = "transaction" /\ cstage = "parsed") => cres.st \in {"ok", "err"}

\* C10: ScriptSerializer::parse returns Ok or ParseError on every byte string,
\* never a panic, and ParseError on every strict prefix of serialize(s) for a
\* valid Script s.
C10_ScriptTruncation ==
    (ckind = "script" /\ cstage = "parsed") =>
        /\ cres.st \in {"ok", "err"}
        /\ cedit = "prefix" =>
              /\ Len(cbytes) < Len(ScriptSerialize(carg))
              /\ cbytes = SubSeq(ScriptSerialize(carg), 1, Len(cbytes))
              /\ cres = Err

C10_Witness ==
    /\ ckind = "script" /\ cstage = "parsed" /\ cedit = "prefix"
    /\ carg.commands = <<Operation(172), Element(Fill(76))>>
    /\ Len(cbytes) = Len(ScriptSerialize(carg)) - 1
    /\ cres = Err

-----------------------------------------------------------------------------
(* The parsers and constructors: claims C11 and C12 *)

\* how many bytes a VarInt flag announces
FlagWidth(flag) == IF flag = 253 THEN 2 ELSE IF flag = 254 THEN 4 ELSE 8

\* C11: VarIntSerializer::parse decodes by the flag byte only.  Empty input is
\* a ParseError; a first byte b < 253 gives (b, 1); 0xFD, 0xFE, 0xFF give the
\* next 2, 4, 8 bytes read little-endian (byte i behind the flag has weight
\* 256^(i-1)) with 3, 5, 9 bytes consumed, and ParseError when fewer bytes
\* follow; an encoding wider than its value needs is accepted.
C11_VarIntParseByFlag ==
    (ckind = "varint" /\ cstage = "parsed") =>
        IF cbytes = <<>> THEN cres = Err
        ELSE IF cbytes[1] < 253 THEN cres = Ok(U64Of(cbytes[1]), 1)
        ELSE IF Len(cbytes) - 1 < FlagWidth(cbytes[1]) THEN cres = Err
        ELSE /\ cres.st = "ok"
             /\ cres.len = FlagWidth(cbytes[1]) + 1
             /\ Len(cres.val) = 8
             /\ \A i \in 1 .. 8 :
                   cres.val[9 - i] =
                       IF i <= FlagWidth(cbytes[1]) THEN cbytes[1 + i] ELSE 0

C11_Witness ==
    /\ ckind = "varint" /\ cstage = "parsed" /\ cedit = "raw"
    /\ cbytes = <<253, 1, 0>>
    /\ cres = Ok(U64Of(1), 3)

C11_WitnessWide ==
    /\ ckind = "varint" /\ cstage = "parsed" /\ cedit = "raw"
    /\ cbytes = <<255, 1, 2, 3, 4, 5, 6, 7, 8, 9>>
    /\ cres = Ok(<<8, 7, 6, 5, 4, 3, 2, 1>>, 9)

C11_WitnessShort ==
    /\ ckind = "varint" /\ cstage = "parsed" /\ cedit = "raw"
    /\ cbytes = <<254, 1, 2, 3>>
    /\ cres = Err

\* a command Script::new refuses
Refused(command) ==
    \/ command.kind = "Operation" /\ command.value <= 77
    \/ command.kind = "Element" /\ Len(command.bytes) >= 65536

\* C12: Script::new(commands) returns the error InvalidCommandsError, and does
\* not panic, exactly when some Operation byte is <= 77 or some Element has
\* 0x10000 bytes or more; otherwise it returns a Script holding the same
\* commands in the same order.
C12_ScriptNewRejects ==
    (ckind = "commands" /\ cstage = "built") =>
        /\ cres.st \in {"ok", "err"}
        /\ cres.st = "err" <=> \E i \in 1 .. Len(carg) : Refused(carg[i])
        /\ cres.st = "ok" => cres.val.commands = carg

C12_Witness ==
    /\ ckind = "commands" /\ cstage = "built"
    /\ carg = <<Operation(77), Operation(78)>>
    /\ cres.st = "err"

C12_WitnessAccepted ==
    /\ ckind = "commands" /\ cstage = "built"
    /\ carg = <<Operation(80), Element(Fill(65535)), Operation(107)>>
    /\ cres.st = "ok"

C12_WitnessElement ==
    /\ ckind = "commands" /\ cstage = "built"
    /\ carg = <<Operation(80), Element(Fill(65536)), Operation(107)>>
    /\ cres.st = "err"

-----------------------------------------------------------------------------
(* The encoders: claims C13 to C20 *)

\* the 32-byte big-endian form of a 256-bit value
BigEndian(x) == x[1] \o x[2] \o x[3] \o x[4]

\* the big-endian form with all leading zero bytes stripped
Stripped(x) ==
    LET nz == {i \in 1 .. 32 : BigEndian(x)[i] # 0}
    IN  IF nz = {} THEN <<>>
        ELSE SubSeq(BigEndian(x), CHOOSE i \in nz : \A j \in nz : i <= j, 32)

\* the DER-minimal encoding: a 0x00 byte in front exactly when the first
\* remaining byte is >= 0x80, behind the length of the body
DERMinimalBody(x) ==
    IF Stripped(x) # <<>> /\ Stripped(x)[1] >= 128
    THEN <<0>> \o Stripped(x) ELSE Stripped(x)
DERMinimal(x) == <<Len(DERMinimalBody(x))>> \o DERMinimalBody(x)

\* C13 as stated: for every 256-bit value x, U256DERSerializer::serialize(x)
\* is [L] ++ body, body the 32-byte big-endian form of x without its leading
\* zero bytes and with one 0x00 byte in front exactly when the first remaining
\* byte is >= 0x80, L the length of body.
C13_DERMinimal ==
    (ckind = "der" /\ cstage = "encoded") => cres = Returned(DERMinimal(carg))

\* what the serializer does give: the DER-minimal encoding of every value
\* whose first non-zero byte is not 0x80, and for a first non-zero byte 0x80
\* the stripped bytes with no 0x00 in front
C13_DERMinimalUnlessLead128 ==
    (ckind = "der" /\ cstage = "encoded") =>
        IF Stripped(carg) # <<>> /\ Stripped(carg)[1] = 128
        THEN cres = Returned(<<Len(Stripped(carg))>> \o Stripped(carg))
        ELSE cres = Returned(DERMinimal(carg))

C13_WitnessLead128 ==
    /\ ckind = "der" /\ cstage = "encoded"
    /\ carg = U256FromBytes(Zeros(31) \o <<128>>)
    /\ cres.val = <<1, 128>>

\* C14 as stated: for every signature (r, s) the serializer returns 0x30,
\* total-len, 0x02, the DER-minimal encoding of r, 0x02, the DER-minimal
\* encoding of s, with total-len = 2 + len(r-encoding) + len(s-encoding), the
\* number of bytes behind the total-len byte.
C14_SignatureLayout ==
    (ckind = "signature" /\ cstage = "encoded") =>
        /\ cres = Returned(<<48, 2 + Len(DERMinimal(carg.r)) + Len(DERMinimal(carg.s)), 2>>
                              \o DERMinimal(carg.r) \o <<2>> \o DERMinimal(carg.s))
        /\ cres.val[2] = Len(cres.val) - 2

\* what the serializer does give: the layout, around the encodings of r and s
\* that U256DERSerializer produces
C14_LayoutOfEncodings ==
    (ckind = "signature" /\ cstage = "encoded") =>
        /\ cres = Returned(<<48, 2 + Len(U256DERSerialize(carg.r))
                                   + Len(U256DERSerialize(carg.s)), 2>>
                              \o U256DERSerialize(carg.r) \o <<2>>
                              \o U256DERSerialize(carg.s))
        /\ cres.val[2] = Len(cres.val) - 2

\* the affine coordinates of a point that is not the identity
AffineX(pt) == CHOOSE a \in BaseFelts : (a * pt.z) % FieldP = pt.x
AffineY(pt) == CHOOSE b \in BaseFelts : (b * pt.z) % FieldP = pt.y

\* C15: for every public key that is not the identity, with affine coordinates
\* (x, y), the compressed serializer returns 33 bytes: 0x02 when y is even or
\* 0x03 when y is odd, then x as 32 big-endian bytes; the uncompressed
\* serializer returns 65 bytes: 0x04, x as 32 big-endian bytes, y as 32
\* big-endian bytes.
C15_SECEncoding ==
    (ckind \in {"compressed", "uncompressed"} /\ cstage = "encoded" /\ carg.z # 0) =>
        IF ckind = "compressed"
        THEN cres = Ok(<<IF AffineY(carg) % 2 = 0 THEN 2 ELSE 3>>
                          \o NatToNumeral(AffineX(carg), 32), 33)
        ELSE cres = Ok(<<4>> \o NatToNumeral(AffineX(carg), 32)
                           \o NatToNumeral(AffineY(carg), 32), 65)

C15_Witness ==
    /\ ckind = "compressed" /\ cstage = "encoded"
    /\ carg = [x |-> 3, y |-> 10, z |-> 2]
    /\ cres = Ok(<<3>> \o Zeros(31) \o <<8>>, 33)

C15_WitnessUncompressed ==
    /\ ckind = "uncompressed" /\ cstage = "encoded"
    /\ carg = [x |-> 3, y |-> 10, z |-> 2]
    /\ cres = Ok(<<4>> \o Zeros(31) \o <<8>> \o Zeros(31) \o <<5>>, 65)

\* how many zero bytes a byte string starts with
ZeroPrefix(bytes) ==
    IF \A i \in 1 .. Len(bytes) : bytes[i] = 0 THEN Len(bytes)
    ELSE (CHOOSE i \in 1 .. Len(bytes) :
              bytes[i] # 0 /\ \A j \in 1 .. i - 1 : bytes[j] = 0) - 1

\* a string begins with exactly k characters '1'
BeginsWithOnes(string, k) ==
    /\ Len(string) >= k
    /\ \A i \in 1 .. k : string[i] = 49
    /\ Len(string) > k => string[k + 1] # 49

\* C16 as stated: for every byte string with exactly k leading zero bytes
\* (k >= 0, the strings of zero bytes only included) base58_encode returns a
\* string that begins with exactly k characters '1'.
C16_Base58LeadingZeros ==
    (ckind = "base58" /\ cstage = "encoded") =>
        BeginsWithOnes(cres.val, ZeroPrefix(carg))

\* what base58_encode does give: exactly k characters '1' in front when some
\* byte is not zero (or the input is empty), and k + 1 characters '1' for k > 0
\* zero bytes and nothing else
C16_OnesUnlessAllZero ==
    (ckind = "base58" /\ cstage = "encoded") =>
        IF carg # <<>> /\ ZeroPrefix(carg) = Len(carg)
        THEN cres.val = [i \in 1 .. Len(carg) + 1 |-> 49]
        ELSE BeginsWithOnes(cres.val, ZeroPrefix(carg))

C16_WitnessAllZero ==
    /\ ckind = "base58" /\ cstage = "encoded"
    /\ carg = <<0>>
    /\ cres.val = <<49, 49>>

\* the digit a character of the base-58 alphabet stands for
Base58Digit(char) == CHOOSE d \in 0 .. 57 : Base58Alphabet[d + 1] = char

\* num * m + carry on base-256 numerals without leading zeros, for carry < m
RECURSIVE MulAdd(_, _, _)
MulAdd(num, m, carry) ==
    IF num = <<>> THEN IF carry = 0 THEN <<>> ELSE <<carry>>
    ELSE Bind([v \in {num[Len(num)] * m + carry} |->
            Append(MulAdd(SubSeq(num, 1, Len(num) - 1), m, v \div 256), v % 256)])

\* the base-256 numeral of the number whose digits in base m, most significant
\* first, are digits[lo..hi], behind the numeral acc of the digits before them
RECURSIVE Denoted(_, _, _, _, _)
Denoted(digits, m, lo, hi, acc) ==
    IF lo > hi THEN acc
    ELSE IF lo = hi THEN MulAdd(acc, m, digits[lo])
    ELSE Bind([a \in {Denoted(digits, m, lo, (lo + hi) \div 2, acc)} |->
            Denoted(digits, m, ((lo + hi) \div 2) + 1, hi, a)])

\* C17: for every byte string whose first byte is not zero, base58_encode
\* returns, most significant digit first, the base-58 digits of the integer
\* the bytes denote as a big-endian base-256 number, digit d as character d
\* of the alphabet, with no leading zero digit.
C17_Base58Value ==
    (ckind = "base58" /\ cstage = "encoded" /\ carg # <<>> /\ carg[1] # 0) =>
        /\ cres.st = "ok"
        /\ cres.val # <<>>
        /\ \A i \in 1 .. Len(cres.val) :
              \E d \in 0 .. 57 : Base58Alphabet[d + 1] = cres.val[i]
        /\ cres.val[1] # Base58Alphabet[1]
        /\ Denoted([i \in 1 .. Len(cres.val) |-> Base58Digit(cres.val[i])],
                   58, 1, Len(cres.val), <<>>) = carg

C17_Witness ==
    /\ ckind = "base58" /\ cstage = "encoded"
    /\ carg = Base58Fixture1
    /\ cres.val =
          <<57, 77, 65, 56, 102, 82, 81, 114, 84, 52, 117, 56, 90, 106, 56, 90,
            82, 100, 54, 77, 65, 105, 105, 121, 97, 120, 98, 50, 89, 49, 67, 77,
            112, 118, 86, 107, 72, 81, 117, 53, 104, 86, 77, 54>>

\* bit j of a byte string, counted from the most significant bit of its first byte
BitOf(bytes, j) == (bytes[(j \div 8) + 1] \div (2 ^ (7 - (j % 8)))) % 2

\* the bits of a byte string taken five at a time from the most significant bit
FiveBitGroups(bytes) ==
    [g \in 1 .. (8 * Len(bytes)) \div 5 |->
        16 * BitOf(bytes, 5 * g - 5) + 8 * BitOf(bytes, 5 * g - 4)
            + 4 * BitOf(bytes, 5 * g - 3) + 2 * BitOf(bytes, 5 * g - 2)
            + BitOf(bytes, 5 * g - 1)]

\* the group a character of the bech32 alphabet stands for
Bech32Group(char) == CHOOSE d \in 0 .. 31 : Bech32Alphabet[d + 1] = char

\* the groups of the data part of an address: the characters between the
\* separator and the six characters of the checksum
DataGroups(string) ==
    [i \in 1 .. Len(string) - 9 |-> Bech32Group(string[i + 3])]

\* C18 as stated: for every 20-byte payload (leading bits zero or not)
\* encode_bech32 emits the witness-version group 0 and then exactly 32 groups,
\* the 160 bits of the payload five at a time from the most significant bit,
\* so that every address has 2 + 1 + 33 + 6 = 42 characters.
C18_Bech32DataPart ==
    (ckind = "bech32" /\ cstage = "encoded") =>
        /\ Len(cres.val) = 42
        /\ DataGroups(cres.val) = <<0>> \o FiveBitGroups(carg.bytes)

\* what encode_bech32 does give: the claimed data part when one of the first
\* five bits of the payload is set
C18_DataPartWhenLeadingBitSet ==
    (ckind = "bech32" /\ cstage = "encoded" /\ carg.bytes[1] >= 8) =>
        /\ Len(cres.val) = 42
        /\ DataGroups(cres.val) = <<0>> \o FiveBitGroups(carg.bytes)

C18_WitnessShort ==
    /\ ckind = "bech32" /\ cstage = "encoded"
    /\ carg.bytes = <<7>> \o Fill(19)
    /\ Len(cres.val) = 41

\* the human-readable part of a chain, its expansion, and the six groups of
\* the checksum of the data groups d
Hrp(chain) == IF chain = "TestNet" THEN <<116, 98>> ELSE <<98, 99>>
Expanded(h) == <<h[1] \div 32, h[2] \div 32, 0, h[1] % 32, h[2] % 32>>
ChecksumOf(d, chain) ==
    [i \in 1 .. 6 |->
        (Xor(Bech32Polymod(Expanded(Hrp(chain)) \o d \o <<0, 0, 0, 0, 0, 0>>), 1)
            \div (32 ^ (6 - i))) % 32]

\* C19: for every chain and every sequence d of data groups the checksum is
\* the six 5-bit groups, most significant first, of
\* bech32_polymod(expand(hrp) ++ d ++ [0,0,0,0,0,0]) XOR 1, with hrp "tb" for
\* TestNet and "bc" for MainNet and expand(hrp) = [h0 >> 5, h1 >> 5, 0,
\* h0 & 31, h1 & 31]; the address is hrp, "1", the data groups, the checksum
\* groups, each group mapped through the alphabet qpzry9x8gf2tvdw0s3jn54khce6mua7l.
\* With that checksum bech32_polymod(expand(hrp) ++ d ++ checksum) is 1.
C19_Bech32Checksum ==
    /\ (ckind = "checksum" /\ cstage = "encoded") =>
          /\ cres = Ok(ChecksumOf(carg.bytes, carg.chain), 6)
          /\ Bech32Polymod(Expanded(Hrp(carg.chain)) \o carg.bytes \o cres.val) = 1
    /\ (ckind = "bech32" /\ cstage = "encoded") =>
          /\ cres.st = "ok"
          /\ Len(cres.val) >= 10
          /\ SubSeq(cres.val, 1, 3) = Hrp(carg.chain) \o <<49>>
          /\ \A i \in 4 .. Len(cres.val) :
                \E d \in 0 .. 31 : Bech32Alphabet[d + 1] = cres.val[i]
          /\ DataGroups(cres.val) = Bech32Groups(carg.bytes)
          /\ [i \in 1 .. 6 |-> Bech32Group(cres.val[Len(cres.val) - 6 + i])]
                = ChecksumOf(DataGroups(cres.val), carg.chain)

C19_Witness ==
    /\ ckind = "checksum" /\ cstage = "encoded"
    /\ carg = [bytes |-> Bech32FixtureGroups, chain |-> "MainNet"]
    /\ cres.val = <<12, 7, 9, 17, 11, 21>>

C19_WitnessAddress ==
    /\ ckind = "bech32" /\ cstage = "encoded"
    /\ carg = [bytes |-> Bech32FixturePayload, chain |-> "MainNet"]
    /\ cres.val =
          <<98, 99, 49, 113, 119, 53, 48, 56, 100, 54, 113, 101, 106, 120, 116, 100,
            103, 52, 121, 53, 114, 51, 122, 97, 114, 118, 97, 114, 121, 48, 99, 53,
            120, 119, 55, 107, 118, 56, 102, 51, 116, 52>>

\* the SEC bytes of a public key as C15 gives them; for the identity, where
\* to_affine returns at all, those of [0 : 1 : 0]
SECBytes(pt, compressed) ==
    IF pt.z = 0
    THEN IF compressed THEN <<3>> \o Zeros(32) ELSE <<4>> \o Zeros(32) \o Zeros(31) \o <<1>>
    ELSE IF compressed
         THEN <<IF AffineY(pt) % 2 = 0 THEN 2 ELSE 3>> \o NatToNumeral(AffineX(pt), 32)
         ELSE <<4>> \o NatToNumeral(AffineX(pt), 32) \o NatToNumeral(AffineY(pt), 32)

\* [version] ++ hash160(SEC bytes)
Base58CheckPayload(c) ==
    <<IF c.chain = "TestNet" THEN 111 ELSE 0>>
        \o Hash160(SECBytes(c.public_key, c.encoding = "CompressedBase58"))

\* C20: for Encoding::CompressedBase58 and Encoding::UncompressedBase58,
\* Address::new returns base58_encode(payload ++ first 4 bytes of
\* hash256(payload)), payload = [version] ++ hash160(SEC bytes of the public
\* key), version 0x6f for TestNet and 0x00 for MainNet, the SEC bytes in the
\* compressed or uncompressed form that matches the encoding.  It returns for
\* every public key that is not the identity.
C20_Base58CheckAddress ==
    (ckind = "address" /\ cstage = "encoded" /\ carg.encoding # "Bech32") =>
        /\ carg.public_key.z # 0 => cres.st = "ok"
        /\ cres.st = "ok" =>
              cres.val = Base58Encode(Base58CheckPayload(carg)
                             \o SubSeq(Hash256(Base58CheckPayload(carg)), 1, 4))

C20_Witness ==
    /\ ckind = "address" /\ cstage = "encoded"
    /\ carg = [public_key |-> [x |-> 3, y |-> 10, z |-> 2], chain |-> "MainNet",
               encoding |-> "CompressedBase58"]
    /\ cres.st = "ok"
    /\ cres.val[1] = 49

C20_WitnessTestNet ==
    /\ ckind = "address" /\ cstage = "encoded"
    /\ carg = [public_key |-> [x |-> 3, y |-> 10, z |-> 2], chain |-> "TestNet",
               encoding |-> "UncompressedBase58"]
    /\ cres.st = "ok"
    /\ cres.val[1] \in {109, 110}

-----------------------------------------------------------------------------
(* The layouts on the wire: claims C21 to C23 *)

\* the digits of the numeral v in front of its last n are all zero: v < 256^n
FitsIn(v, n) == \A i \in 1 .. Len(v) - n : v[i] = 0

\* how many bytes follow the first byte of the VarInt of v
PayloadWidth(v) ==
    IF FitsIn(v, 1) /\ v[8] < 253 THEN 0
    ELSE IF FitsIn(v, 2) THEN 2
    ELSE IF FitsIn(v, 4) THEN 4
    ELSE 8

\* the flag in front of a payload of w bytes
FlagOf(w) == IF w = 2 THEN 253 ELSE IF w = 4 THEN 254 ELSE 255

\* VarIntSerializer::serialize(carg) has run; bytes may have been put behind it
VarIntSerialized ==
    ckind = "varint" /\ cstage \in {"bytes", "parsed"} /\ cedit \in {"none", "tail"}

\* C21: VarIntSerializer::serialize(v) is the single byte v when v < 253, 0xFD
\* and the 2 little-endian bytes of v when 253 <= v < 0x10000, 0xFE and the 4
\* little-endian bytes of v when 0x10000 <= v < 0x100000000, and 0xFF and the 8
\* little-endian bytes of v otherwise.
C21_VarIntLayout ==
    VarIntSerialized =>
        /\ Len(cbytes) >= PayloadWidth(carg) + 1
        /\ cedit = "none" => Len(cbytes) = PayloadWidth(carg) + 1
        /\ cbytes[1] = IF PayloadWidth(carg) = 0 THEN carg[8]
                       ELSE FlagOf(PayloadWidth(carg))
        /\ \A i \in 1 .. PayloadWidth(carg) : cbytes[i + 1] = carg[9 - i]

C21_Witness ==
    /\ VarIntSerialized /\ cedit = "none"
    /\ carg = U64Of(65536)
    /\ cbytes = <<254, 0, 0, 1, 0>>

C21_WitnessThresholds ==
    /\ VarIntSerialized /\ cedit = "none"
    /\ \/ carg = U64Of(252) /\ cbytes = <<252>>
       \/ carg = U64Of(253) /\ cbytes = <<253, 253, 0>>
       \/ carg = U64Of(65535) /\ cbytes = <<253, 255, 255>>
       \/ carg = <<0, 0, 0, 1, 0, 0, 0, 0>> /\ cbytes = <<255, 0, 0, 0, 0, 1, 0, 0, 0>>


\* the bytes in front of the bytes of a pushed element of n bytes
PushHeader(n) ==
    IF n <= 75 THEN <<n>>
    ELSE IF n < 256 THEN <<76, n>>
    ELSE <<77, n % 256, n \div 256>>

\* how many bytes a command takes on the wire
EncodedSize(command) ==
    IF command.kind = "Operation" THEN 1
    ELSE Len(PushHeader(Len(command.bytes))) + Len(command.bytes)

\* how many bytes the first n commands take on the wire
RECURSIVE BodySize(_, _)
BodySize(commands, n) ==
    IF n = 0 THEN 0 ELSE BodySize(commands, n - 1) + EncodedSize(commands[n])

\* the bytes from position from + 1 on are those of the VarInt of the usize n
VarIntAt(bytes, from, n) ==
    /\ bytes[from + 1] = IF PayloadWidth(U64Of(n)) = 0 THEN n
                         ELSE FlagOf(PayloadWidth(U64Of(n)))
    /\ \A i \in 1 .. PayloadWidth(U64Of(n)) :
          bytes[from + 1 + i] = U64Of(n)[9 - i]

\* the width of the VarInt of the usize n
VarIntWidth(n) == PayloadWidth(U64Of(n)) + 1

\* the bytes from position from + 1 on are those of the command
CommandAt(bytes, from, command) ==
    IF command.kind = "Operation" THEN bytes[from + 1] = command.value
    ELSE /\ \A i \in 1 .. Len(PushHeader(Len(command.bytes))) :
               bytes[from + i] = PushHeader(Len(command.bytes))[i]
         /\ SubSeq(bytes, from + Len(PushHeader(Len(command.bytes))) + 1,
                   from + EncodedSize(command)) = command.bytes

\* the bytes from position from + 1 on are the Script encoding of the script
ScriptAt(bytes, from, script) ==
    /\ VarIntAt(bytes, from, BodySize(script.commands, Len(script.commands)))
    /\ \A i \in 1 .. Len(script.commands) :
          CommandAt(bytes,
                    from + VarIntWidth(BodySize(script.commands, Len(script.commands)))
                         + BodySize(script.commands, i - 1),
                    script.commands[i])

\* how many bytes the Script encoding of the script takes
ScriptSize(script) ==
    VarIntWidth(BodySize(script.commands, Len(script.commands)))
        + BodySize(script.commands, Len(script.commands))

\* ScriptSerializer::serialize(carg) has run and the bytes are as it left them
ScriptSerialized ==
    ckind = "script" /\ cstage \in {"bytes", "parsed"} /\ cedit = "none"

\* C22: ScriptSerializer::serialize(s) is the VarInt of the length of the body
\* followed by the body, the body being the encodings of the commands in
\* order: Operation(v) is the byte v; an Element of at most 75 bytes is its
\* length in one byte and its bytes; an Element of 76 to 255 bytes is 76 (0x4c),
\* its length in one byte and its bytes; an Element of 256 to 65535 bytes is
\* 77 (0x4d), its length in two bytes, low byte first, and its bytes.
C22_ScriptLayout ==
    ScriptSerialized =>
        /\ Len(cbytes) = ScriptSize(carg)
        /\ ScriptAt(cbytes, 0, carg)

C22_Witness ==
    /\ ScriptSerialized
    /\ carg.commands = <<Element(Fill(76)), Element(Fill(75))>>
    /\ SubSeq(cbytes, 1, 3) = <<154, 76, 76>>
    /\ cbytes[80] = 75

C22_WitnessPushData2 ==
    /\ ScriptSerialized
    /\ carg.commands = <<Operation(172), Element(Fill(256))>>
    /\ SubSeq(cbytes, 1, 7) = <<253, 4, 1, 172, 77, 0, 1>>

C22_WitnessLongest ==
    /\ ScriptSerialized
    /\ carg.commands = <<Element(Fill(65535))>>
    /\ SubSeq(cbytes, 1, 8) = <<254, 2, 0, 1, 0, 77, 255, 255>>
    /\ Len(cbytes) = 65543


\* the bytes from position from + 1 on are the numeral v, least significant
\* byte first
LittleEndianAt(bytes, from, v) ==
    \A k \in 1 .. Len(v) : bytes[from + k] = v[Len(v) + 1 - k]

\* how many bytes an input and an output take on the wire
InputSize(input) == 32 + 4 + ScriptSize(input.script_sig) + 4
OutputSize(output) == 8 + ScriptSize(output.script_pubkey)

\* how many bytes the inputs lo..hi and the outputs lo..hi take on the wire
RECURSIVE InputsSize(_, _, _)
InputsSize(inputs, lo, hi) ==
    IF lo > hi THEN 0
    ELSE IF lo = hi THEN InputSize(inputs[lo])
    ELSE InputsSize(inputs, lo, (lo + hi) \div 2)
             + InputsSize(inputs, ((lo + hi) \div 2) + 1, hi)

RECURSIVE OutputsSize(_, _, _)
OutputsSize(outputs, lo, hi) ==
    IF lo > hi THEN 0
    ELSE IF lo = hi THEN OutputSize(outputs[lo])
    ELSE OutputsSize(outputs, lo, (lo + hi) \div 2)
             + OutputsSize(outputs, ((lo + hi) \div 2) + 1, hi)

\* the bytes from position from + 1 on are those of the input: the source id
\* last byte first, the source index, the script_sig, the sequence
InputAt(bytes, from, input) ==
    /\ \A k \in 1 .. 32 : bytes[from + k] = input.source_id[33 - k]
    /\ LittleEndianAt(bytes, from + 32, input.source_index)
    /\ ScriptAt(bytes, from + 36, input.script_sig)
    /\ LittleEndianAt(bytes, from + 36 + ScriptSize(input.script_sig), input.sequence)

\* the bytes from position from + 1 on are those of the output: the amount and
\* the script_pubkey
OutputAt(bytes, from, output) ==
    /\ LittleEndianAt(bytes, from, output.amount)
    /\ ScriptAt(bytes, from + 8, output.script_pubkey)

\* where the inputs lo..hi and the outputs lo..hi start on the wire, the first
\* of them at from
RECURSIVE InputOffsets(_, _, _, _)
InputOffsets(inputs, lo, hi, from) ==
    IF lo > hi THEN <<>>
    ELSE IF lo = hi THEN <<from>>
    ELSE InputOffsets(inputs, lo, (lo + hi) \div 2, from)
             \o InputOffsets(inputs, ((lo + hi) \div 2) + 1, hi,
                             from + InputsSize(inputs, lo, (lo + hi) \div 2))

RECURSIVE OutputOffsets(_, _, _, _)
OutputOffsets(outputs, lo, hi, from) ==
    IF lo > hi THEN <<>>
    ELSE IF lo = hi THEN <<from>>
    ELSE OutputOffsets(outputs, lo, (lo + hi) \div 2, from)
             \o OutputOffsets(outputs, ((lo + hi) \div 2) + 1, hi,
                              from + OutputsSize(outputs, lo, (lo + hi) \div 2))

\* where the parts of the transaction t start on the wire
InputsOffset(t) == 4 + VarIntWidth(Len(t.inputs))
OutputCountOffset(t) == InputsOffset(t) + InputsSize(t.inputs, 1, Len(t.inputs))
OutputsOffset(t) == OutputCountOffset(t) + VarIntWidth(Len(t.outputs))
LocktimeOffset(t) == OutputsOffset(t) + OutputsSize(t.outputs, 1, Len(t.outputs))

\* the inputs are on the wire where at says, and so are the outputs
InputsAt(bytes, at, inputs) ==
    \A i \in 1 .. Len(inputs) : InputAt(bytes, at[i], inputs[i])
OutputsAt(bytes, at, outputs) ==
    \A i \in 1 .. Len(outputs) : OutputAt(bytes, at[i], outputs[i])

\* the source ids of the inputs are the 32 bytes on the wire where at says,
\* last byte first
SourceIdsAt(bytes, at, inputs) ==
    \A i \in 1 .. Len(inputs) :
        inputs[i].source_id = Reverse(SubSeq(bytes, at[i] + 1, at[i] + 32))

\* TransactionSerializer::serialize(carg) has run and the bytes are as it left
\* them
TransactionSerialized ==
    ckind = "transaction" /\ cstage \in {"bytes", "parsed"} /\ cedit = "none"

\* C23: TransactionSerializer::serialize(t) is, in this order: the version in 4
\* little-endian bytes; the VarInt of the number of inputs; each input as its
\* 32-byte source_id in reverse byte order, its source_index in 4 little-endian
\* bytes, its script_sig in the Script encoding and its sequence in 4
\* little-endian bytes; the VarInt of the number of outputs; each output as its
\* amount in 8 little-endian bytes and its script_pubkey in the Script encoding;
\* the locktime in 4 little-endian bytes.  Parsing an input reverses the 32
\* bytes of the wire again: the source_id parsed is the wire bytes last byte
\* first.
C23_TransactionLayout ==
    TransactionSerialized =>
        /\ Len(cbytes) = LocktimeOffset(carg) + 4
        /\ LittleEndianAt(cbytes, 0, carg.version)
        /\ VarIntAt(cbytes, 4, Len(carg.inputs))
        /\ Bind([at \in {InputOffsets(carg.inputs, 1, Len(carg.inputs),
                                      InputsOffset(carg))} |->
              /\ InputsAt(cbytes, at, carg.inputs)
              /\ (cstage = "parsed" /\ cres.st = "ok") =>
                    /\ Len(cres.val.inputs) = Len(at)
                    /\ SourceIdsAt(cbytes, at, cres.val.inputs)])
        /\ VarIntAt(cbytes, OutputCountOffset(carg), Len(carg.outputs))
        /\ Bind([at \in {OutputOffsets(carg.outputs, 1, Len(carg.outputs),
                                       OutputsOffset(carg))} |->
              OutputsAt(cbytes, at, carg.outputs)])
        /\ LittleEndianAt(cbytes, LocktimeOffset(carg), carg.locktime)

C23_Witness ==
    /\ TransactionSerialized
    /\ Len(carg.inputs) = 1 /\ Len(carg.outputs) = 253
    /\ SubSeq(cbytes, 1, 7) = <<4, 3, 2, 1, 1, 33, 32>>

C23_WitnessParsed ==
    /\ TransactionSerialized
    /\ cstage = "parsed" /\ cres.st = "ok"
    /\ Len(cres.val.inputs) = 2
    /\ cres.val.inputs[2].source_id[1] = 3
    /\ cbytes[InputsOffset(carg) + InputSize(carg.inputs[1]) + 32] = 3

-----------------------------------------------------------------------------
(* The loop of sign: claim C24 *)

\* C24 as stated: the retry loop of sign is bounded: with any nonce source,
\* one that yields a degenerate nonce (k = 0, r = 0 or s = 0) on every draw
\* included, sign stops after a bounded number of draws, reporting that the
\* draws are exhausted, and does not loop forever: a call that has entered the
\* loop eventually leaves it.
C24_SignLoopBounded == (pc = "loop") ~> (pc # "loop")

-----------------------------------------------------------------------------
(* The parsers: claims C25 to C27 *)

\* how many bytes the VarInt that begins with the byte flag takes on the wire
WireWidth(flag) == IF flag < 253 THEN 1 ELSE FlagWidth(flag) + 1

\* where the output count of the transaction parse returned begins in the bytes
\* it was given: behind the version, the input count and the inputs
ParsedOutputCountOffset ==
    4 + WireWidth(cbytes[5]) + InputsSize(cres.val.inputs, 1, Len(cres.val.inputs))

\* C25 as stated: in TransactionSerializer::parse the running offset moves
\* behind the output count by the width of the VarInt of the output count
\* itself, whatever the widths of the two count VarInts: a serialized
\* transaction parses, and where parse succeeds the count it returns is the
\* number of bytes of the encoded transaction: version, input count, inputs,
\* output count, outputs, locktime.
C25_OffsetByOwnWidth ==
    /\ RoundTripped("transaction") => (cres.st = "ok" /\ cres.len = Len(cbytes))
    /\ (ckind = "transaction" /\ cstage = "parsed" /\ cres.st = "ok") =>
          cres.len = ParsedOutputCountOffset
                         + WireWidth(cbytes[ParsedOutputCountOffset + 1])
                         + OutputsSize(cres.val.outputs, 1, Len(cres.val.outputs))
                         + 4


\* the script length the bytes handed to ScriptSerializer::parse declare
DeclaredLength == VarIntParse(cbytes).val

\* C26 as stated: ScriptSerializer::parse never reads past the declared length
\* of the script.  Where it succeeds on b, with the declared length L in a
\* prefix of p bytes, the bytes of the commands it parsed lie inside
\* b[p .. p + L] and it has consumed p + L bytes; an input whose last push
\* would run over the declared length is rejected with ParseError.  The bytes
\* consumed end where the last command ends.
C26_ParseWithinDeclaredLength ==
    (ckind = "script" /\ cstage = "parsed" /\ cres.st = "ok") =>
        U64Of(cres.len - WireWidth(cbytes[1])) = DeclaredLength


\* the length prefix of the bytes handed to ScriptSerializer::parse is the
\* VarInt serialize would write for the length it declares
MinimalPrefix == WireWidth(cbytes[1]) = PayloadWidth(DeclaredLength) + 1

\* C27 as stated: parse is the inverse of serialize from the bytes to the
\* value too: for every byte string b whose length prefix is a minimal VarInt
\* and on which ScriptSerializer::parse succeeds with (s, n),
\* ScriptSerializer::serialize(s) is the first n bytes of b.
C27_SerializeOfParsed ==
    (ckind = "script" /\ cstage = "parsed" /\ cres.st = "ok" /\ MinimalPrefix) =>
        ScriptSerialize(cres.val) = SubSeq(cbytes, 1, cres.len)

-----------------------------------------------------------------------------
(* The codewords of Bech32: claim C28 *)

\* x is below 2^30
FitsIn30Bits(x) == x >= 0 /\ x < 1073741824

\* what an address stands for under bech32_polymod: its human-readable part
\* expanded, then the group of every character behind the separator
Codeword(address) ==
    Expanded(<<address[1], address[2]>>)
        \o [i \in 1 .. Len(address) - 3 |-> Bech32Group(address[i + 3])]

\* d, the value of c in a pass of bech32_polymod in front of the j-th of its
\* ifs, and every value of c from there on fit in 30 bits, and the pass
\* leaves the value last
RECURSIVE IfsFit(_, _, _, _)
IfsFit(d, c0, j, last) ==
    /\ FitsIn30Bits(d)
    /\ IF j > 5 THEN d = last
       ELSE Bind([e \in {IF (c0 \div (2 ^ (j - 1))) % 2 = 1
                         THEN Xor(d, Bech32Generators[j]) ELSE d} |->
               IfsFit(e, c0, j + 1, last)])

\* every value c takes in the pass over v_i entered with c fits in 30 bits, and
\* the pass leaves the value last
PassFits(c, v_i, last) ==
    /\ FitsIn30Bits(c)
    /\ IfsFit(Xor((c % 33554432) * 32, v_i), c \div 33554432, 1, last)

\* bech32_polymod over the bytes lo..hi from the value s.c, with whether every
\* value of c on the way fitted in 30 bits
RECURSIVE PolymodFits(_, _, _, _)
PolymodFits(bytes, lo, hi, s) ==
    IF lo > hi THEN s
    ELSE IF lo = hi
         THEN Bind([last \in {PolymodPass(s.c, bytes[lo])} |->
                 [c |-> last, fits |-> s.fits /\ PassFits(s.c, bytes[lo], last)]])
    ELSE Bind([t \in {PolymodFits(bytes, lo, (lo + hi) \div 2, s)} |->
            PolymodFits(bytes, ((lo + hi) \div 2) + 1, hi, t)])

\* Address::new or encode_bech32 has returned a Bech32 address
Bech32Returned ==
    /\ cstage = "encoded"
    /\ \/ ckind = "bech32"
       \/ ckind = "address" /\ carg.encoding = "Bech32"
    /\ cres.st = "ok"

\* C28: every Bech32 address the encoder produces is a valid codeword:
\* bech32_polymod(expand(hrp) ++ d ++ c) = 1 for its human-readable part hrp,
\* its data groups d and its checksum groups c, and every value bech32_polymod
\* takes on the way, the last included, fits in 30 bits.
C28_Bech32Codeword ==
    Bech32Returned =>
        /\ Len(cres.val) >= 9
        /\ cres.val[3] = 49
        /\ \A i \in 4 .. Len(cres.val) :
              \E d \in 0 .. 31 : Bech32Alphabet[d + 1] = cres.val[i]
        /\ Bind([r \in {PolymodFits(Codeword(cres.val), 1, Len(cres.val) + 2,
                                    [c |-> 1, fits |-> TRUE])} |->
              r.c = 1 /\ r.fits])

C28_Witness ==
    /\ Bech32Returned
    /\ ckind = "address"
    /\ carg.public_key = [x |-> 3, y |-> 10, z |-> 2]
    /\ carg.chain = "TestNet"
    /\ SubSeq(cres.val, 1, 4) = <<116, 98, 49, 113>>
    /\ Bech32Polymod(SubSeq(Codeword(cres.val), 1, 12)) >= 33554432

C28_WitnessPayload ==
    /\ Bech32Returned
    /\ ckind = "bech32"
    /\ carg = [bytes |-> Bech32FixturePayload, chain |-> "MainNet"]
    /\ Bech32Polymod(Codeword(cres.val)) = 1

-----------------------------------------------------------------------------
(* The invariant of Script: claim C29 *)

\* what Script promises of its commands
ValidScript(script) ==
    \A i \in 1 .. Len(script.commands) :
        /\ script.commands[i].kind \in {"Operation", "Element"}
        /\ script.commands[i].kind = "Operation" => script.commands[i].value > 77
        /\ script.commands[i].kind = "Element" => Len(script.commands[i].bytes) < 65536

\* C29: every Script there is keeps the invariant of Script::new, however it
\* was obtained: from Script::new returning Ok, from Script::empty, from
\* Script::p2pk with the compressed or the uncompressed key, from a successful
\* ScriptSerializer::parse (alone or for the inputs and outputs of a parsed
\* transaction): every Operation is above 77 and every Element is shorter than
\* 0x10000 bytes.  Script::p2pk yields exactly the two commands Element(the SEC
\* bytes of the key) and Operation(0xac).
C29_ScriptInvariant ==
    /\ (ckind \in {"commands", "empty", "p2pk"} /\ cstage = "built" /\ cres.st = "ok")
          => ValidScript(cres.val)
    /\ (ckind = "empty" /\ cstage = "built") => cres.val.commands = <<>>
    /\ (ckind = "p2pk" /\ cstage = "built") =>
          /\ carg.public_key.z # 0 => cres.st = "ok"
          /\ cres.st = "ok" =>
                cres.val.commands
                    = <<Element(SECBytes(carg.public_key, carg.compressed)), Operation(172)>>
    /\ (ckind = "script" /\ cstage = "parsed" /\ cres.st = "ok") => ValidScript(cres.val)
    /\ (ckind = "transaction" /\ cstage = "parsed" /\ cres.st = "ok") =>
          /\ \A i \in 1 .. Len(cres.val.inputs) : ValidScript(cres.val.inputs[i].script_sig)
          /\ \A i \in 1 .. Len(cres.val.outputs) :
                ValidScript(cres.val.outputs[i].script_pubkey)

C29_Witness ==
    /\ ckind = "p2pk" /\ cstage = "built" /\ cres.st = "ok"
    /\ carg = [public_key |-> [x |-> 3, y |-> 10, z |-> 2], compressed |-> TRUE]
    /\ cres.val.commands = <<Element(<<3>> \o Zeros(31) \o <<8>>), Operation(172)>>

C29_WitnessUncompressed ==
    /\ ckind = "p2pk" /\ cstage = "built" /\ cres.st = "ok"
    /\ ~carg.compressed
    /\ Len(cres.val.commands[1].bytes) = 65

C29_WitnessParsed ==
    /\ ckind = "script" /\ cstage = "parsed" /\ cres.st = "ok" /\ cedit = "raw"
    /\ cres.val.commands = <<Operation(78), Element(<<>>)>>

C29_WitnessEmpty ==
    ckind = "empty" /\ cstage = "built" /\ cres.st = "ok"

-----------------------------------------------------------------------------
(* The parser of U256: claim C30 *)

\* the 256-bit value that 32 bytes denote most significant byte first has
\* these as its bytes: limb i holds the bytes 8 i - 7 .. 8 i
DenotedBy(bytes, value) ==
    \A k \in 1 .. 32 : value[((k - 1) \div 8) + 1][((k - 1) % 8) + 1] = bytes[k]

\* C30 as stated: U256BigEndianSerializer::parse reports too few bytes as
\* ParseError and does not panic: on an input shorter than 32 bytes it returns
\* ParseError, on an input of 32 bytes or more it returns (the value of the
\* first 32 bytes read big-endian, 32), so that parse(serialize(x)) = (x, 32)
\* for every 256-bit x.
C30_U256ParseTotal ==
    (ckind = "u256" /\ cstage = "parsed") =>
        /\ Len(cbytes) < 32 => cres = Err
        /\ Len(cbytes) >= 32 =>
              /\ cres.st = "ok" /\ cres.len = 32
              /\ DenotedBy(cbytes, cres.val)
              /\ cedit \in {"none", "tail"} => cres.val = carg

=============================================================================
